---- MODULE Spec2Model ----
(***************************************************************************)
(* Catalog reconciliation of HALLYUSTORE: syncBunjangProductToShopify and  *)
(* fetchAndProcessBunjangCatalog (src/services/catalogService.js) and the  *)
(* retry loop shopifyGraphqlRequest (shopifyService.js).                   *)
(*                                                                         *)
(* Every `await` of a record sync is one step of that record's task, so    *)
(* that tasks of one concurrency group interleave at the points where the  *)
(* event loop can switch between them.                                     *)
(***************************************************************************)
EXTENDS Integers, Sequences, FiniteSets, TLC

\* ---------------------------------------------------------------- bounds
MaxPid == 2
MaxTime == 2
MaxBatchLen == 2
MaxConcurrency == 2
MaxBatches == 3

Pids == 1..MaxPid
Times == 1..MaxTime

\* A feed record as processCatalogRow returns it: only valid rows reach the
\* orchestrator, so pid and updatedAt are always present.
Records == [pid : Pids, updatedAt : Times]
Batches == UNION {[1..n -> Records] : n \in 0..MaxBatchLen}

\* The behaviours explored: one feed of up to MaxBatchLen records, or up to
\* MaxBatches successive feeds of one record each.
Scenarios == {[maxLen |-> MaxBatchLen, maxRuns |-> 1],
              [maxLen |-> 1, maxRuns |-> MaxBatches]}

NoDoc == [id |-> 0]
NoGid == 0

VARIABLES
  docs,             \* the SyncedProduct collection: a set of documents
  products,         \* destination products: products[gid] = [tag, price]
  forceResyncAll,   \* config.forceResyncAll
  bunjangProducts,  \* the valid records of the batch being processed
  concurrency,      \* config.bunjang.syncConcurrency || 1
  failing,          \* TRUE while the upstreams of this batch may fail
  bpc,              \* position of fetchAndProcessBunjangCatalog
  chunkStart,       \* index of the first record of the current chunk
  summary,          \* the four counters of the batch
  runs,             \* batches started so far
  scenario,         \* what the feeds of this behaviour look like
  tasks,            \* tasks[i]: the sync of bunjangProducts[i]
  rq,               \* one call of shopifyGraphqlRequest
  od,               \* one call of processShopifyOrderForBunjang
  rw,               \* one call of processCatalogRow
  dl,               \* one call of fetchAndProcessBunjangCatalog up to the parse
  pr,               \* one call of the price calculation
  wh                \* a call of verifyShopifyWebhook

catalogVars == <<docs, products, forceResyncAll, bunjangProducts, concurrency,
                 failing, bpc, chunkStart, summary, runs, scenario, tasks>>

\* What the steps of the catalog sync leave alone.
otherVars == <<rq, od, rw, dl, pr, wh>>

vars == <<catalogVars, otherVars>>

\* ------------------------------------------------------- Sync State Store
\* The filter { bunjangPid } of every findOne / updateOne.
ByNoField(d, pid) == FALSE

ByPid(d, pid) == d.bunjangPid = pid

Matching(pid) == {d \in docs : ByPid(d, pid)}

\* findOne returns the first matching document in natural (insertion) order.
FindOne(pid) ==
  IF Matching(pid) = {} THEN NoDoc
  ELSE CHOOSE d \in Matching(pid) : \A e \in Matching(pid) : d.id <= e.id

\* updateOne without upsert: modifies the first match, a no-op without match.
\* `change` maps each stored document to its modified form.
UpdateOne(pid, change) ==
  LET d == FindOne(pid)
  IN IF d = NoDoc THEN docs ELSE (docs \ {d}) \cup {change[d]}

NewDoc(pid, t) ==
  [id |-> Cardinality(docs) + 1, bunjangPid |-> pid, syncStatus |-> "PENDING",
   shopifyGid |-> NoGid, bunjangUpdatedAt |-> t, syncAttemptCount |-> 1,
   syncSuccessCount |-> 0, syncErrorMessage |-> "null",
   syncErrorStackSample |-> "null",
   shopifyListedPriceUsd |-> 0]

\* $set and $inc of the attempt upsert ($setOnInsert only acts on insert).
AttemptChangeNoInc(d, t) == [d EXCEPT !.bunjangUpdatedAt = t]

AttemptChangeSetStatus(d, t) ==
  [d EXCEPT !.bunjangUpdatedAt = t, !.syncAttemptCount = @ + 1,
            !.syncStatus = "PENDING"]

AttemptChange(d, t) ==
  [d EXCEPT !.bunjangUpdatedAt = t, !.syncAttemptCount = @ + 1]

\* updateOne with { upsert: true } on the collection keyed by bunjangPid:
\* one indivisible find-or-insert (upsert-by-ID).
Upsert(pid, change, fresh) ==
  LET d == FindOne(pid)
  IN IF d = NoDoc THEN docs \cup {fresh} ELSE (docs \ {d}) \cup {change[d]}

\* lines 266-280: the attempt record.
UpsertAttemptDocs(pid, t) ==
  Upsert(pid, [d \in docs |-> AttemptChange(d, t)], NewDoc(pid, t))

\* ---------------------------------------------------------- destination
\* products(first: 1, query: "tag:'bunjang_pid:<pid>'")
TaggedGids(pid) == {g \in 1..Len(products) : products[g].tag = pid}

FindProductByBunjangPidTag(pid) ==
  IF TaggedGids(pid) = {} THEN NoGid
  ELSE CHOOSE g \in TaggedGids(pid) : \A h \in TaggedGids(pid) : g <= h

\* calculateShopifyPriceUsd: the listing price of a record. The sync model
\* only needs a value that identifies the price of this attempt.
PriceOf(rec) == rec.updatedAt

\* --------------------------------------------------------------- tasks
TaskIds == 1..MaxBatchLen
Live(i) == i \in DOMAIN tasks

NewTask(rec) ==
  [pid |-> rec.pid, updatedAt |-> rec.updatedAt, pc |-> "new",
   prevStatus |-> "none", prevUpdatedAt |-> 0, prevAttempts |-> 0,
   gid |-> NoGid, variant |-> FALSE, createdId |-> NoGid,
   price |-> 0, called |-> FALSE, starts |-> 0, result |-> "none",
   lookup |-> "none", media |-> "none"]

Settled(t) == t.pc \in {"fulfilled", "rejected"}
InFlight(t) == t.pc \notin {"new", "fulfilled", "rejected"}

\* shouldSkipUnchanged: the test of lines 283-286 on the re-read document.
ShouldSkipStrict(d, feedUpdatedAt) ==
  /\ d.syncStatus = "SYNCED"
  /\ d.bunjangUpdatedAt > feedUpdatedAt
  /\ ~forceResyncAll

ShouldSkip(d, feedUpdatedAt) ==
  /\ d.syncStatus = "SYNCED"
  /\ d.bunjangUpdatedAt >= feedUpdatedAt
  /\ ~forceResyncAll

\* The $set / $inc of the SYNCED outcome write (lines 544-558).
SyncedChangeKeepsError(d, t) ==
  [d EXCEPT !.shopifyGid = t.createdId, !.syncStatus = "SYNCED",
            !.shopifyListedPriceUsd = t.price,
            !.bunjangUpdatedAt = t.updatedAt, !.syncAttemptCount = 0,
            !.syncSuccessCount = @ + 1]

SyncedChange(d, t) ==
  [d EXCEPT !.shopifyGid = t.createdId, !.syncStatus = "SYNCED",
            !.syncErrorMessage = "null", !.syncErrorStackSample = "null",
            !.shopifyListedPriceUsd = t.price,
            !.bunjangUpdatedAt = t.updatedAt, !.syncAttemptCount = 0,
            !.syncSuccessCount = @ + 1]

\* The $set of the ERROR outcome write (lines 573-581).
ErrorChangeSetsGid(d, t) ==
  [d EXCEPT !.syncStatus = "ERROR", !.syncErrorMessage = "msg",
            !.syncErrorStackSample = "stack",
            !.bunjangUpdatedAt = t.updatedAt, !.shopifyGid = t.gid]

ErrorChangeKeepsStatus(d, t) ==
  [d EXCEPT !.bunjangUpdatedAt = t.updatedAt,
            !.shopifyGid = IF t.gid # NoGid THEN t.gid ELSE @]

ErrorChange(d, t) ==
  [d EXCEPT !.syncStatus = "ERROR", !.syncErrorMessage = "msg",
            !.syncErrorStackSample = "stack",
            !.bunjangUpdatedAt = t.updatedAt,
            !.shopifyGid = IF t.gid # NoGid THEN t.gid ELSE @]

\* A task that has returned or thrown keeps only what its caller can see
\* (the result) and the record of what it did.
Finish(t, pc, result) ==
  [t EXCEPT !.pc = pc, !.result = result, !.gid = NoGid, !.variant = FALSE,
            !.createdId = NoGid, !.price = 0, !.lookup = "none",
            !.media = "none"]

\* `if (!createdOrUpdatedProductId) throw` (line 427).
AfterDispatchAlwaysMedia(createdId) == "media"

AfterDispatch(createdId) == IF createdId = NoGid THEN "writeError" ELSE "media"

Step(i, t) == tasks' = [tasks EXCEPT ![i] = t]

\* line 263: the first findOne.
FindOneBefore(i) ==
  /\ Live(i) /\ tasks[i].pc = "findOne"
  /\ \/ LET d == FindOne(tasks[i].pid)
        IN Step(i, [tasks[i] EXCEPT
                      !.pc = "upsert",
                      !.prevStatus = IF d = NoDoc THEN "none" ELSE d.syncStatus,
                      !.prevUpdatedAt =
                          IF d = NoDoc THEN 0 ELSE d.bunjangUpdatedAt,
                      !.prevAttempts =
                          IF d = NoDoc THEN 0 ELSE d.syncAttemptCount])
     \/ failing /\ Step(i, Finish(tasks[i], "rejected", "rejected"))
  /\ UNCHANGED <<docs, products, forceResyncAll, bunjangProducts, concurrency,
                 failing, bpc, chunkStart, summary, runs, scenario, otherVars>>

\* lines 266-280: the attempt upsert.
UpsertAttempt(i) ==
  /\ Live(i) /\ tasks[i].pc = "upsert"
  /\ \/ /\ docs' = UpsertAttemptDocs(tasks[i].pid, tasks[i].updatedAt)
        /\ Step(i, [tasks[i] EXCEPT !.pc = "reread"])
     \/ /\ failing
        /\ Step(i, Finish(tasks[i], "rejected", "rejected"))
        /\ UNCHANGED docs
  /\ UNCHANGED <<products, forceResyncAll, bunjangProducts, concurrency,
                 failing, bpc, chunkStart, summary, runs, scenario, otherVars>>

\* lines 281-293: re-read, the unchanged test, the stored identifier.
ReadAndDecide(i) ==
  /\ Live(i) /\ tasks[i].pc = "reread"
  /\ \/ LET d == FindOne(tasks[i].pid)
        IN IF d = NoDoc
           THEN Step(i, Finish(tasks[i], "rejected", "rejected"))
           ELSE IF ShouldSkip(d, tasks[i].updatedAt)
           THEN Step(i, Finish(tasks[i], "fulfilled", "skipped_no_change"))
           ELSE Step(i, [tasks[i] EXCEPT
                           !.gid = d.shopifyGid,
                           !.pc = IF d.shopifyGid = NoGid
                                  THEN "tagLookup" ELSE "price"])
     \/ failing /\ Step(i, Finish(tasks[i], "rejected", "rejected"))
  /\ UNCHANGED <<docs, products, forceResyncAll, bunjangProducts, concurrency,
                 failing, bpc, chunkStart, summary, runs, scenario, otherVars>>

\* lines 293-304: the tag lookup; a throwing lookup is swallowed. The
\* field lookup records how the lookup ended until the branch of line 322
\* has been taken.
TagLookup(i) ==
  /\ Live(i) /\ tasks[i].pc = "tagLookup"
  /\ \/ LET id == FindProductByBunjangPidTag(tasks[i].pid)
        IN Step(i, [tasks[i] EXCEPT
                      !.pc = "price", !.called = TRUE, !.gid = id,
                      !.lookup = IF id = NoGid THEN "notFound" ELSE "found"])
     \/ failing /\ Step(i, [tasks[i] EXCEPT !.pc = "price", !.called = TRUE,
                                             !.lookup = "threw"])
  /\ UNCHANGED <<docs, products, forceResyncAll, bunjangProducts, concurrency,
                 failing, bpc, chunkStart, summary, runs, scenario, otherVars>>

\* line 322: `if (shopifyProductGid)` chooses update, else create.
BranchAlwaysCreate(gid) == "create"

BranchOf(gid) == IF gid # NoGid THEN "queryVariant" ELSE "create"

\* lines 307-322: price calculation, transform, create-or-update branch.
CalculatePrice(i) ==
  /\ Live(i) /\ tasks[i].pc = "price"
  /\ \/ Step(i, [tasks[i] EXCEPT
                    !.price = PriceOf(tasks[i]),
                    !.pc = BranchOf(tasks[i].gid)])
     \/ failing /\ Step(i, [tasks[i] EXCEPT !.pc = "writeError",
                                             !.lookup = "none"])
  /\ UNCHANGED <<docs, products, forceResyncAll, bunjangProducts, concurrency,
                 failing, bpc, chunkStart, summary, runs, scenario, otherVars>>

\* lines 326-355: query of the existing variant; a throwing query or a
\* response without variant leaves existingVariant null.
QueryExistingVariant(i) ==
  /\ Live(i) /\ tasks[i].pc = "queryVariant"
  /\ \E found \in BOOLEAN :
       /\ found \/ failing
       /\ Step(i, [tasks[i] EXCEPT !.pc = "update", !.called = TRUE,
                                   !.variant = found, !.lookup = "none"])
  /\ UNCHANGED <<docs, products, forceResyncAll, bunjangProducts, concurrency,
                 failing, bpc, chunkStart, summary, runs, scenario, otherVars>>

\* lines 365-366: updateProduct returns the product, returns it without an
\* id, or throws.
UpdateProduct(i) ==
  /\ Live(i) /\ tasks[i].pc = "update"
  /\ \/ Step(i, [tasks[i] EXCEPT
                    !.called = TRUE, !.createdId = tasks[i].gid,
                    !.pc = IF tasks[i].variant THEN "updateVariant"
                           ELSE AfterDispatch(tasks[i].gid)])
     \/ /\ failing
        /\ Step(i, [tasks[i] EXCEPT
                       !.called = TRUE, !.createdId = NoGid,
                       !.pc = IF tasks[i].variant THEN "updateVariant"
                              ELSE AfterDispatch(NoGid)])
     \/ /\ failing
        /\ Step(i, [tasks[i] EXCEPT !.called = TRUE, !.pc = "writeError"])
  /\ UNCHANGED <<docs, products, forceResyncAll, bunjangProducts, concurrency,
                 failing, bpc, chunkStart, summary, runs, scenario, otherVars>>

SetPrice(gid, price) ==
  IF gid \in 1..Len(products)
  THEN [products EXCEPT ![gid].price = price] ELSE products

\* lines 369-399: updateProductVariant and updateInventoryLevel, both
\* swallowed when they throw; then the check of line 427.
UpdateVariant(i) ==
  /\ Live(i) /\ tasks[i].pc = "updateVariant"
  /\ \/ products' = SetPrice(tasks[i].gid, tasks[i].price)
     \/ failing /\ UNCHANGED products
  /\ Step(i, [tasks[i] EXCEPT !.called = TRUE,
                              !.pc = AfterDispatch(tasks[i].createdId)])
  /\ UNCHANGED <<docs, forceResyncAll, bunjangProducts, concurrency,
                 failing, bpc, chunkStart, summary, runs, scenario, otherVars>>

\* lines 400-429 with createProduct: productCreate throws (nothing is
\* created), or creates the product; the variant update inside
\* createProduct is swallowed when it throws; the returned product may
\* lack its id.
CreateProduct(i) ==
  /\ Live(i) /\ tasks[i].pc = "create"
  /\ \/ \E priceSet \in BOOLEAN, hasId \in BOOLEAN :
          /\ (priceSet /\ hasId) \/ failing
          /\ products' = Append(products,
                [tag |-> tasks[i].pid,
                 price |-> IF priceSet THEN tasks[i].price ELSE 0])
          /\ Step(i, [tasks[i] EXCEPT
                  !.called = TRUE, !.lookup = "none",
                  !.createdId = IF hasId THEN Len(products) + 1 ELSE NoGid,
                  !.pc = AfterDispatch(IF hasId THEN Len(products) + 1
                                       ELSE NoGid)])
     \/ /\ failing
        /\ Step(i, [tasks[i] EXCEPT !.called = TRUE, !.pc = "writeError",
                                    !.lookup = "none"])
        /\ UNCHANGED products
  /\ UNCHANGED <<docs, forceResyncAll, bunjangProducts, concurrency,
                 failing, bpc, chunkStart, summary, runs, scenario, otherVars>>

\* lines 519-537: whatever appendMediaToProduct did, the sync goes on to
\* the SYNCED write.
AfterMediaThrowAborts(outcome) ==
  IF outcome = "threw" THEN "writeError" ELSE "writeSynced"

AfterMedia(outcome) == "writeSynced"

MediaFailures == {"failedItems", "threw"}

\* lines 432-542: media attachment, skipped without usable image URL; it
\* attaches the items, returns with failed items, or throws (swallowed).
\* The field media records whether the attachment failed.
AppendMedia(i) ==
  /\ Live(i) /\ tasks[i].pc = "media"
  /\ \/ Step(i, [tasks[i] EXCEPT !.pc = AfterMedia("skipped"),
                                  !.media = "done"])
     \/ \E outcome \in {"attached", "failedItems", "threw"} :
          /\ outcome = "attached" \/ failing
          /\ Step(i, [tasks[i] EXCEPT
                        !.pc = AfterMedia(outcome), !.called = TRUE,
                        !.media = IF outcome \in MediaFailures
                                  THEN "failed" ELSE "done"])
  /\ UNCHANGED <<docs, products, forceResyncAll, bunjangProducts, concurrency,
                 failing, bpc, chunkStart, summary, runs, scenario, otherVars>>

\* lines 544-561: the SYNCED outcome write; when it rejects, the catch
\* block of line 563 runs.
WriteSynced(i) ==
  /\ Live(i) /\ tasks[i].pc = "writeSynced"
  /\ \/ /\ docs' = UpdateOne(tasks[i].pid,
                               [d \in docs |-> SyncedChange(d, tasks[i])])
        /\ Step(i, Finish(tasks[i], "fulfilled", "success"))
     \/ /\ failing
        /\ Step(i, [tasks[i] EXCEPT !.pc = "writeError"])
        /\ UNCHANGED docs
  /\ UNCHANGED <<products, forceResyncAll, bunjangProducts, concurrency,
                 failing, bpc, chunkStart, summary, runs, scenario, otherVars>>

\* lines 563-583: the ERROR outcome write; when it rejects, the promise of
\* the record rejects.
WriteError(i) ==
  /\ Live(i) /\ tasks[i].pc = "writeError"
  /\ \/ /\ docs' = UpdateOne(tasks[i].pid,
                               [d \in docs |-> ErrorChange(d, tasks[i])])
        /\ Step(i, Finish(tasks[i], "fulfilled", "error"))
     \/ /\ failing
        /\ Step(i, Finish(tasks[i], "rejected", "rejected"))
        /\ UNCHANGED docs
  /\ UNCHANGED <<products, forceResyncAll, bunjangProducts, concurrency,
                 failing, bpc, chunkStart, summary, runs, scenario, otherVars>>

\* ------------------------------------------ fetchAndProcessBunjangCatalog
Min(a, b) == IF a <= b THEN a ELSE b

\* lines 623-627: bunjangProducts.slice(i, i + concurrency).
ChunkOfRest(start) == start..Len(bunjangProducts)

ChunkOf(start) == start..Min(start + concurrency - 1, Len(bunjangProducts))

\* line 631: chunk.map(product => syncBunjangProductToShopify(product)):
\* every record of the chunk runs up to its first await.
StartTasks(ts, S) ==
  [i \in DOMAIN ts |->
     IF i \in S THEN [ts[i] EXCEPT !.pc = "findOne", !.starts = @ + 1]
     ELSE ts[i]]

\* line 630: Promise.allSettled resolves once every promise of the chunk
\* has fulfilled or rejected, and never rejects.
PromiseAll(S) ==
  IF \E i \in S : tasks[i].pc = "rejected" THEN "rejected"
  ELSE IF \A i \in S : tasks[i].pc = "fulfilled" THEN "settled"
  ELSE "pending"

AllSettled(S) ==
  IF \A i \in S : Settled(tasks[i]) THEN "settled" ELSE "pending"

Count(S, r) == Cardinality({i \in S : tasks[i].result = r})

ZeroSummary(n) ==
  [validProductsToProcess |-> n, successfullyProcessed |-> 0, errors |-> 0,
   skippedByFilter |-> 0, skippedNoChange |-> 0]

\* lines 633-643: the tally of one chunk's results.
TallyFulfilled(S) ==
  [summary EXCEPT
     !.successfullyProcessed = @ + Count(S, "success"),
     !.skippedByFilter = @ + Count(S, "skipped_filter"),
     !.skippedNoChange = @ + Count(S, "skipped_no_change"),
     !.errors = @ + Count(S, "error")]

Tally(S) ==
  [summary EXCEPT
     !.successfullyProcessed = @ + Count(S, "success"),
     !.skippedByFilter = @ + Count(S, "skipped_filter"),
     !.skippedNoChange = @ + Count(S, "skipped_no_change"),
     !.errors = @ + Count(S, "error") + Count(S, "rejected")]

\* lines 586-632: a run of fetchAndProcessBunjangCatalog up to the first
\* chunk; with no valid record it returns the zero summary (line 614).
StartBatch ==
  /\ bpc \in {"idle", "done"}
  /\ runs < scenario.maxRuns
  /\ \E b \in Batches, f \in BOOLEAN :
       /\ Len(b) <= scenario.maxLen
       /\ bunjangProducts' = b
       /\ failing' = f
       /\ summary' = ZeroSummary(Len(b))
       /\ chunkStart' = 1
       /\ bpc' = IF Len(b) = 0 THEN "done" ELSE "await"
       /\ tasks' = StartTasks([i \in 1..Len(b) |-> NewTask(b[i])],
                              1..Min(concurrency, Len(b)))
  /\ runs' = runs + 1
  /\ UNCHANGED <<docs, products, forceResyncAll, concurrency, scenario,
                 otherVars>>

\* lines 629-663: the chunk has settled: tally it, then start the next
\* chunk or return the summary.
ChunkSettled ==
  /\ bpc = "await"
  /\ AllSettled(ChunkOf(chunkStart)) # "pending"
  /\ IF AllSettled(ChunkOf(chunkStart)) = "rejected"
     THEN /\ bpc' = "rejected"
          /\ UNCHANGED <<summary, chunkStart, tasks>>
     ELSE /\ summary' = Tally(ChunkOf(chunkStart))
          /\ chunkStart' = chunkStart + Cardinality(ChunkOf(chunkStart))
          /\ IF chunkStart' > Len(bunjangProducts)
             THEN bpc' = "done" /\ UNCHANGED tasks
             ELSE /\ bpc' = "await"
                  /\ tasks' = StartTasks(tasks, ChunkOf(chunkStart'))
  /\ UNCHANGED <<docs, products, forceResyncAll, bunjangProducts, concurrency,
                 failing, runs, scenario, otherVars>>

\* ------------------------------------------------ shopifyGraphqlRequest
MAX_SHOPIFY_RETRIES == 3
INITIAL_SHOPIFY_RETRY_DELAY_MS == 2000
\* JITTER_FACTOR = 0.3, in thousandths
JITTER_FACTOR_PERMILLE == 300

\* What client.query can do: HTTP status of a GraphqlQueryError (0: none).
Statuses == {0, 400, 404, 429, 499, 500, 503, 599, 600}
\* The retry-after header: absent, not a number, or seconds.
NoHeader == -1
NaNHeader == -2
RetryAfters == {NoHeader, NaNHeader, 0, 5}
\* Math.random() * 2 - 1, in thousandths: a value of [-1, 1).
Jitters == {-1000, -500, 0, 500, 999}

NoErr == [kind |-> "none", status |-> 0, throttled |-> FALSE,
          retryAfter |-> NoHeader]

\* GraphqlQueryError thrown by the client; errors in the response body
\* (thrown as ExternalServiceError at line 418); any other exception.
Errors ==
  [kind : {"GraphqlQueryError"}, status : Statuses, throttled : BOOLEAN,
   retryAfter : RetryAfters]
  \cup [kind : {"bodyErrors", "unexpected"}, status : {0},
        throttled : BOOLEAN, retryAfter : {NoHeader}]

IdleRequest == [pc |-> "idle", attempt |-> 0, invocations |-> 0,
                err |-> NoErr, delayMs |-> 0, cause |-> NoErr]

\* line 428
IsThrottled(e) == e.status = 429 \/ e.throttled

\* line 429
IsClientOrServerError(e) == e.status >= 400 /\ e.status <= 599

IsServerError(e) == e.status >= 500 /\ e.status <= 599

\* line 437: the condition under which the loop continues.
ShouldRetryUnbounded(e, attempt) ==
  /\ e.kind = "GraphqlQueryError"
  /\ (IsThrottled(e) \/ IsServerError(e))

ShouldRetry(e, attempt) ==
  /\ e.kind = "GraphqlQueryError"
  /\ attempt < MAX_SHOPIFY_RETRIES
  /\ (IsThrottled(e) \/ IsServerError(e))

Pow2Flat(n) == 1

Pow2(n) == IF n = 0 THEN 1 ELSE IF n = 1 THEN 2 ELSE IF n = 2 THEN 4
           ELSE IF n = 3 THEN 8 ELSE 16

\* Math.round of num / den (den > 0): halves go up.
Round(num, den) == (2 * num + den) \div (2 * den)

Max(a, b) == IF a >= b THEN a ELSE b

\* lines 438-446: the delay before the next attempt.
BackoffDelay(e, attempt, jitter) ==
  LET base == INITIAL_SHOPIFY_RETRY_DELAY_MS * Pow2(attempt)
      \* delayMs * JITTER_FACTOR is a whole number for these delays
      amplitude == (base * JITTER_FACTOR_PERMILLE) \div 1000
      jittered == Max(1000, Round(base * 1000 + amplitude * jitter, 1000))
  IN IF IsThrottled(e) /\ e.retryAfter \notin {NoHeader, NaNHeader}
     THEN Max(jittered, e.retryAfter * 1000 + 500)
     ELSE jittered

\* line 402: getShopifyAdminGraphQLClient returns the client or throws.
RequestStart ==
  /\ rq.pc = "idle"
  /\ \/ rq' = [rq EXCEPT !.pc = "invoke"]
     \/ rq' = [rq EXCEPT !.pc = "raised"]
  /\ UNCHANGED <<catalogVars, od, rw, dl, pr, wh>>

\* lines 405-459: one turn of the loop: client.query and the handling of
\* its response or exception.
RequestInvoke ==
  /\ rq.pc = "invoke"
  /\ \/ rq' = [rq EXCEPT !.pc = "returned", !.invocations = @ + 1,
                          !.err = NoErr]
     \/ \E e \in Errors, jitter \in Jitters :
          rq' = IF ShouldRetry(e, rq.attempt)
                THEN [rq EXCEPT !.pc = "sleep", !.invocations = @ + 1,
                       !.err = e,
                       !.delayMs = BackoffDelay(e, rq.attempt, jitter)]
                ELSE [rq EXCEPT !.pc = "raised", !.invocations = @ + 1,
                       !.err = e, !.delayMs = 0, !.cause = e]
  /\ UNCHANGED <<catalogVars, od, rw, dl, pr, wh>>

\* lines 448-449: the timer fires and the loop continues.
RequestWake ==
  /\ rq.pc = "sleep"
  /\ rq' = [rq EXCEPT !.pc = "invoke", !.attempt = @ + 1]
  /\ UNCHANGED <<catalogVars, od, rw, dl, pr, wh>>

\* ------------------------------------------- processShopifyOrderForBunjang
MaxItems == 2
MaxPrice == 2
MaxFee == 2

\* A field that the source API left out, and one that parseInt cannot read
\* as a non-negative number.
UndefinedField == -1
InvalidNumber == -2

\* The text of item.sku after its first three characters: empty (num 0), a
\* decimal numeral, or a numeral followed by other characters ('1a').
EmptyText == [num |-> 0, junk |-> FALSE]
SkuTexts ==
  [num : Pids, junk : {FALSE}] \cup {[num |-> 1, junk |-> TRUE], EmptyText}

\* item.sku: none or without the 'BJ-' prefix (not linked), or 'BJ-<text>'.
Skus == [linked : BOOLEAN, rest : SkuTexts]
LineItems == UNION {[1..n -> Skus] : n \in 1..MaxItems}

\* The inbound order: null, without id, without admin_graphql_api_id,
\* without line_items, with empty line_items, or complete.
Orders ==
  [kind : {"null", "noId", "noGid", "noLineItems", "emptyLineItems"},
   line_items : {<<>>}]
  \cup [kind : {"valid"}, line_items : LineItems]

\* What GET /api/v1/products/{pid} can answer with: response.data.data.
NoDetails == [found |-> FALSE, price |-> UndefinedField,
              shippingFee |-> UndefinedField]
Details ==
  [found : {TRUE},
   price : {UndefinedField, InvalidNumber} \cup 1..MaxPrice,
   shippingFee : {UndefinedField, InvalidNumber} \cup 0..MaxFee]

NoPayload == [product |-> [id |-> 0, price |-> 0], deliveryPrice |-> 0]

IdleOrder ==
  [pc |-> "idle", order |-> [kind |-> "null", line_items |-> <<>>],
   idx |-> 0, details |-> NoDetails, payload |-> NoPayload,
   actualBunjangShippingFeeKrw |-> 0,
   createdBunjangOrderIds |-> <<>>,
   bunjangOrderSuccessfullyCreatedOverall |-> FALSE,
   calls |-> <<>>, error |-> "none",
   result |-> [success |-> FALSE, bunjangOrderIds |-> <<>>]]

\* String(x)
String(x) == [str |-> x]

\* lines 20-27 of orderService.js: shopifyOrder.id is read before the test
\* of `!shopifyOrder`.
ValidateOrder(order) ==
  IF order.kind = "null" THEN "TypeError"
  ELSE IF order.kind # "valid" THEN "ValidationError"
  ELSE "ok"

\* item.sku.substring(3)
PidOfSku(sku) == sku.rest

\* parseInt(bunjangPid, 10): the leading numeral, NaN without one.
ParseIntNoNumeral(text) == InvalidNumber

ParseInt(text) == IF text.num = 0 THEN InvalidNumber ELSE text.num

\* mapShopifyItemToBunjangOrderPayload: the payload, or the error thrown.
MapShopifyItemToBunjangOrderPayload(pid, details) ==
  IF pid = EmptyText THEN [error |-> "ValidationError", payload |-> NoPayload]
  ELSE IF details.price = UndefinedField \/ details.shippingFee = UndefinedField
  THEN [error |-> "AppError", payload |-> NoPayload]
  ELSE IF details.price = InvalidNumber \/ details.shippingFee = InvalidNumber
  THEN [error |-> "ValidationError", payload |-> NoPayload]
  ELSE [error |-> "none",
        payload |-> [product |-> [id |-> ParseInt(pid),
                                  price |-> details.price],
                     deliveryPrice |-> 0]]

\* HTTP status of the answer to POST /api/v2/orders (0: no answer in time).
CreateStatuses == {0, 200, 400, 429, 503}

NoMeta == [order_id |-> String(0), ordered_pid |-> String(EmptyText),
           ordered_item_price_krw |-> String(0),
           api_sent_shipping_fee_krw |-> String(0),
           actual_bunjang_shipping_fee_krw |-> String(0)]

\* One remote call of the order processing, as the remote side sees it.
Call(api, item, pid, tags, meta, payload, details, status, returned) ==
  [api |-> api, item |-> item, pid |-> pid, tags |-> tags,
   metafields |-> meta, payload |-> payload, details |-> details,
   status |-> status, returned |-> returned]

OrderItems == od.order.line_items
OrderPid == PidOfSku(OrderItems[od.idx])

\* The next turn of `for (const item of shopifyOrder.line_items)`.
NextItem(o) == [o EXCEPT !.pc = "item", !.idx = @ + 1,
                         !.details = NoDetails, !.payload = NoPayload,
                         !.actualBunjangShippingFeeKrw = 0]

\* lines 20-27: the validation of the inbound order.
OrderValidate ==
  /\ od.pc = "start"
  /\ od' = IF ValidateOrder(od.order) = "ok"
           THEN [od EXCEPT !.pc = "item", !.idx = 1]
           ELSE [od EXCEPT !.pc = "threw",
                           !.error = ValidateOrder(od.order)]
  /\ UNCHANGED <<catalogVars, rq, rw, dl, pr, wh>>

\* lines 44-48: an item whose SKU lacks the 'BJ-' prefix.
SkipItem ==
  /\ od.pc = "item" /\ od.idx <= Len(OrderItems)
  /\ ~OrderItems[od.idx].linked
  /\ od' = NextItem(od)
  /\ UNCHANGED <<catalogVars, rq, rw, dl, pr, wh>>

\* lines 50-77: getBunjangProductDetails (null for not found and for every
\* failure of the call), then the mapper and the zero delivery fee.
GetBunjangProductDetails ==
  /\ od.pc = "item" /\ od.idx <= Len(OrderItems)
  /\ OrderItems[od.idx].linked
  /\ \E d \in Details \cup {NoDetails} :
       LET c == Call("getBunjangProductDetails", od.idx, OrderPid, "none",
                     NoMeta, NoPayload, d, 0, 0)
           m == MapShopifyItemToBunjangOrderPayload(OrderPid, d)
           o == [od EXCEPT !.calls = Append(@, c), !.details = d]
       IN od' = IF ~d.found THEN [o EXCEPT !.pc = "tagNotFound"]
                ELSE IF m.error # "none"
                THEN [o EXCEPT !.pc = "catch", !.error = m.error]
                ELSE [o EXCEPT
                        !.pc = "create",
                        !.actualBunjangShippingFeeKrw =
                            m.payload.deliveryPrice,
                        !.payload = [m.payload EXCEPT !.deliveryPrice = 0]]
  /\ UNCHANGED <<catalogVars, rq, rw, dl, pr, wh>>

\* One updateOrder call: accepted, or it throws.
UpdateOrder(tags, meta, accepted, onThrow) ==
  LET c == Call("updateOrder", od.idx, OrderPid, tags, meta, NoPayload,
                NoDetails, IF accepted THEN 200 ELSE 0, 0)
      o == [od EXCEPT !.calls = Append(@, c)]
  IN od' = IF accepted THEN NextItem(o)
           ELSE IF onThrow = "catch"
           THEN [o EXCEPT !.pc = "catch", !.error = "ExternalServiceError"]
           ELSE [o EXCEPT !.pc = "threw", !.error = "ExternalServiceError"]

\* line 59: the error tag of an item whose product was not found.
UpdateOrderNotFound ==
  /\ od.pc = "tagNotFound"
  /\ \E accepted \in BOOLEAN :
       UpdateOrder("NotFound", NoMeta, accepted, "catch")
  /\ UNCHANGED <<catalogVars, rq, rw, dl, pr, wh>>

\* The order IDs the source API has handed out so far.
IssuedIds ==
  {od.calls[k].returned : k \in {k \in 1..Len(od.calls) :
     od.calls[k].api = "createBunjangOrderV2" /\ od.calls[k].returned # 0}}

\* line 81: createBunjangOrderV2 (lines 297-317 of bunjangService): one
\* POST; it returns response.data.data, which has an id, or throws.
CreateBunjangOrderV2 ==
  /\ od.pc = "create"
  /\ \E status \in CreateStatuses, hasId \in BOOLEAN :
       LET id == IF status = 200 /\ hasId
                 THEN Cardinality(IssuedIds) + 1 ELSE 0
           c == Call("createBunjangOrderV2", od.idx, OrderPid, "none",
                     NoMeta, od.payload, NoDetails, status, id)
           o == [od EXCEPT !.calls = Append(@, c)]
       IN od' = IF id # 0
                THEN [o EXCEPT
                        !.pc = "writeBack",
                        !.createdBunjangOrderIds = Append(@, String(id)),
                        !.bunjangOrderSuccessfullyCreatedOverall = TRUE]
                ELSE [o EXCEPT
                        !.pc = "catch",
                        !.error = IF status = 200 THEN "AppError"
                                  ELSE "ExternalServiceError"]
  /\ UNCHANGED <<catalogVars, rq, rw, dl, pr, wh>>

\* lines 84-99: the tags and metafields of a placed order, in one call.
PlacedMetaMissing == NoMeta

PlacedMeta ==
  [order_id |-> od.createdBunjangOrderIds[Len(od.createdBunjangOrderIds)],
   ordered_pid |-> String(OrderPid),
   ordered_item_price_krw |-> String(od.payload.product.price),
   api_sent_shipping_fee_krw |-> String(od.payload.deliveryPrice),
   actual_bunjang_shipping_fee_krw |->
     String(od.actualBunjangShippingFeeKrw)]

UpdateOrderPlaced ==
  /\ od.pc = "writeBack"
  /\ \E accepted \in BOOLEAN :
       UpdateOrder("BunjangOrderPlaced", PlacedMeta, accepted, "catch")
  /\ UNCHANGED <<catalogVars, rq, rw, dl, pr, wh>>

\* lines 120-126: the catch block of one item; its updateOrder is awaited
\* outside any try.
UpdateOrderException ==
  /\ od.pc = "catch"
  /\ \E accepted \in BOOLEAN :
       UpdateOrder("Exception", NoMeta, accepted, "throw")
  /\ UNCHANGED <<catalogVars, rq, rw, dl, pr, wh>>

\* lines 129-137: the result.
ResultOfFlagOnly(o) ==
  [success |-> TRUE, bunjangOrderIds |-> o.createdBunjangOrderIds]

ResultOf(o) ==
  IF o.bunjangOrderSuccessfullyCreatedOverall
  THEN [success |-> TRUE, bunjangOrderIds |-> o.createdBunjangOrderIds]
  ELSE [success |-> FALSE, bunjangOrderIds |-> <<>>]

ReturnResult ==
  /\ od.pc = "item" /\ od.idx > Len(OrderItems)
  /\ od' = [od EXCEPT !.pc = "returned", !.result = ResultOf(od)]
  /\ UNCHANGED <<catalogVars, rq, rw, dl, pr, wh>>

\* ------------------------------------------------------ processCatalogRow
MaxRowNumber == 1

\* parseFloat / parseInt of a CSV cell: NaN or a number.
NaN == [nan |-> TRUE, v |-> 0]
Num(v) == [nan |-> FALSE, v |-> v]
RowNumbers == {NaN} \cup {Num(v) : v \in -1..MaxRowNumber}

\* A CSV row, cell by cell, with the cells already parsed as numbers where
\* the code parses them; dates are absent, unreadable or readable.
DateCells == {"absent", "invalid", "valid"}
Rows ==
  [pid : {"", " ", "1"}, name : {"", "n"},
   saleStatus : {"", "SELLING", " selling ", "SOLD_OUT"},
   price : RowNumbers, quantity : RowNumbers,
   updatedAt : DateCells, createdAt : DateCells,
   categoryId : {"", "a", "b"}]

\* config.bunjang.filterCategoryIds
FilterLists == {{}, {"a"}}

\* (s || '').trim()
Trim(s) == IF s = " " THEN ""
           ELSE IF s = " selling " THEN "selling" ELSE s

\* .toUpperCase()
ToUpperCase(s) == IF s = "selling" THEN "SELLING" ELSE s

NullRow == [dropped |-> TRUE]

\* No Shopify input has been built from the row.
NoInput == [quantity |-> -1, inventoryPolicy |-> "none"]

IdleRow == [pc |-> "idle", row |-> NullRow, filterCategoryIds |-> {},
            result |-> NullRow, input |-> NoInput]

\* lines 154-165: both dates are set to null when either is unreadable.
ParsedUpdatedAt(row) ==
  IF row.updatedAt = "invalid" \/ row.createdAt = "invalid" THEN "null"
  ELSE IF row.updatedAt = "absent" THEN "undefined"
  ELSE "date"

\* lines 134-152: the product built from the row.
ProductOfRow(row) ==
  [dropped |-> FALSE, pid |-> Trim(row.pid), name |-> Trim(row.name),
   saleStatus |-> ToUpperCase(Trim(row.saleStatus)),
   price |-> row.price, quantity |-> row.quantity,
   updatedAt |-> ParsedUpdatedAt(row), categoryId |-> Trim(row.categoryId)]

\* line 176: the test of the category allow-list.
FailsCategoryFilter(product, filterCategoryIds) ==
  /\ filterCategoryIds # {}
  /\ product.categoryId # ""
  /\ product.categoryId \notin filterCategoryIds

\* processCatalogRow: null or the product.
ProcessCatalogRow(row, filterCategoryIds) ==
  LET product == ProductOfRow(row)
  IN IF product.saleStatus # "SELLING" THEN NullRow
     ELSE IF \/ product.pid = "" \/ product.name = "" \/ product.price.nan
             \/ product.updatedAt # "date"
     THEN NullRow
     ELSE IF FailsCategoryFilter(product, filterCategoryIds) THEN NullRow
     ELSE IF \/ product.price.v < 0
             \/ (~product.quantity.nan /\ product.quantity.v < 0)
     THEN NullRow
     ELSE product

\* The row processor applied to one parsed CSV row (line 104).
RowProcessed ==
  /\ rw.pc = "row"
  /\ rw' = [rw EXCEPT !.pc = "done",
                      !.result = ProcessCatalogRow(rw.row,
                                                   rw.filterCategoryIds)]
  /\ UNCHANGED <<catalogVars, rq, od, dl, pr, wh>>

\* line 206: parseInt of the quantity, NaN counted as 0, floored at 0.
VariantQuantity(product) ==
  IF ~product.quantity.nan THEN Max(0, product.quantity.v) ELSE 0

\* line 212: the inventory policy of the variant.
InventoryPolicy(variantQuantity) ==
  IF variantQuantity > 0 THEN "DENY" ELSE "CONTINUE"

\* transformBunjangRowToShopifyInput: the variant's inventory policy and the
\* inventory quantity built from an accepted product.
TransformBunjangRowToShopifyInput(product) ==
  LET variantQuantity == VariantQuantity(product)
  IN [quantity |-> variantQuantity,
      inventoryPolicy |-> InventoryPolicy(variantQuantity)]

\* The accepted product is mapped to its Shopify input (line 308).
RowTransformed ==
  /\ rw.pc = "done" /\ rw.result # NullRow
  /\ rw' = [rw EXCEPT !.pc = "transformed",
                      !.input = TransformBunjangRowToShopifyInput(rw.result)]
  /\ UNCHANGED <<catalogVars, rq, od, dl, pr, wh>>

\* ------------------------- fetchAndProcessBunjangCatalog: fetching the feed
\* The catalog types a caller may pass.
CatalogTypes == {"full", "segment", "daily", "undefined"}

\* The Content-Encoding response header as sent ("" when absent).
Encodings == {"", "gzip", "GZIP", "x-gzip"}

\* String(...).toLowerCase() of line 69.
ToLowerCase2(s) == IF s = "GZIP" THEN "gzip" ELSE s

\* line 72: the test of the decompression branch.
IsGzip(encoding) == ToLowerCase2(encoding) \in {"gzip", "x-gzip"}

\* The temporary download file and the final CSV of the call: absent, or
\* what they hold. "stale" is a final CSV left by an earlier call.
TempStates == {"absent", "empty", "partial", "complete"}
FinalStates == {"absent", "stale", "partial", "complete"}

IdleDownload ==
  [pc |-> "idle", catalogType |-> "full", urlConfigured |-> TRUE,
   encoding |-> "", temp |-> "absent", final |-> "absent",
   requested |-> FALSE, error |-> "none", cause |-> "none",
   cleanupFailed |-> FALSE]

\* generateBunjangCatalogFilename: a file name, or the AppError of line 130.
GenerateBunjangCatalogFilenameLenient(type) ==
  IF type = "segment" THEN "segment-YYYYMMDD_HH.csv.gz"
  ELSE "full-YYYYMMDD.csv.gz"

GenerateBunjangCatalogFilename(type) ==
  IF type = "full" THEN "full-YYYYMMDD.csv.gz"
  ELSE IF type = "segment" THEN "segment-YYYYMMDD_HH.csv.gz"
  ELSE "INVALID_CATALOG_TYPE"

\* An error leaves fetchAndProcessBunjangCatalog, which catches nothing.
Thrown(error, cause) ==
  [dl EXCEPT !.pc = "thrown", !.error = error, !.cause = cause]

\* line 594: the file name of the catalog.
FetchStart ==
  /\ dl.pc = "start"
  /\ dl' = IF GenerateBunjangCatalogFilename(dl.catalogType)
              = "INVALID_CATALOG_TYPE"
           THEN Thrown("INVALID_CATALOG_TYPE", "none")
           ELSE [dl EXCEPT !.pc = "config"]
  /\ UNCHANGED <<catalogVars, rq, od, rw, pr, wh>>

\* lines 597-606: the configuration checks. TEMP_DOWNLOAD_DIR is
\* `config.tempDir || './tmp_downloads'` (line 18) and is never empty.
CheckConfig ==
  /\ dl.pc = "config"
  /\ dl' = IF ~dl.urlConfigured THEN Thrown("BUNJANG_URL_MISSING", "none")
           ELSE [dl EXCEPT !.pc = "ensureDir"]
  /\ UNCHANGED <<catalogVars, rq, od, rw, pr, wh>>

\* ------------------------------------------------- downloadAndProcessFile
\* line 43: fs.ensureDir, before the try block: its rejection leaves the
\* function as it is.
EnsureDir ==
  /\ dl.pc = "ensureDir"
  /\ \/ dl' = [dl EXCEPT !.pc = "auth"]
     \/ dl' = Thrown("fsError", "ensureDir")
  /\ UNCHANGED <<catalogVars, rq, od, rw, pr, wh>>

\* An error thrown inside the try block enters the catch of line 86.
Catch(cause) == [dl EXCEPT !.pc = "catchTemp", !.cause = cause]

\* line 49: generateBunjangAuthHeader.
GenerateBunjangAuthHeader ==
  /\ dl.pc = "auth"
  /\ \/ dl' = [dl EXCEPT !.pc = "request"]
     \/ dl' = Catch("auth")
  /\ UNCHANGED <<catalogVars, rq, od, rw, pr, wh>>

\* lines 50-56: the download request; it answers with a stream and its
\* headers, or fails (status, network, timeout).
Request ==
  /\ dl.pc = "request"
  /\ \/ \E e \in Encodings :
          dl' = [dl EXCEPT !.pc = "pipeline", !.requested = TRUE,
                           !.encoding = e]
     \/ dl' = [Catch("request") EXCEPT !.requested = TRUE]
  /\ UNCHANGED <<catalogVars, rq, od, rw, pr, wh>>

\* lines 59-60: the response is streamed into the temporary file; a stream
\* error leaves no file or a partial one.
DownloadPipeline ==
  /\ dl.pc = "pipeline"
  /\ \/ \E t \in {"empty", "complete"} :
          dl' = [dl EXCEPT !.pc = "stat", !.temp = t]
     \/ \E t \in {"absent", "partial"} :
          dl' = [Catch("stream") EXCEPT !.temp = t]
  /\ UNCHANGED <<catalogVars, rq, od, rw, pr, wh>>

\* lines 61-72: fs.stat and the branch on size and encoding.
Stat ==
  /\ dl.pc = "stat"
  /\ \/ dl' = [dl EXCEPT !.pc = IF dl.temp = "empty" THEN "removeEmpty"
                               ELSE IF IsGzip(dl.encoding) THEN "gunzip"
                               ELSE "move"]
     \/ dl' = Catch("stat")
  /\ UNCHANGED <<catalogVars, rq, od, rw, pr, wh>>

\* lines 64-67: the empty download is removed and reported.
RemoveEmpty ==
  /\ dl.pc = "removeEmpty"
  /\ \/ dl' = [Catch("empty") EXCEPT !.temp = "absent"]
     \/ dl' = Catch("removeEmpty")
  /\ UNCHANGED <<catalogVars, rq, od, rw, pr, wh>>

\* lines 74-78: decompression into the final CSV; createWriteStream
\* truncates the file it opens, so a failure leaves what was there or a
\* partial file.
Gunzip ==
  /\ dl.pc = "gunzip"
  /\ \/ dl' = [dl EXCEPT !.pc = "removeTemp", !.final = "complete"]
     \/ \E f \in {dl.final, "partial"} :
          dl' = [Catch("gunzip") EXCEPT !.final = f]
  /\ UNCHANGED <<catalogVars, rq, od, rw, pr, wh>>

\* line 79: the temporary file is removed after the decompression.
RemoveTemp ==
  /\ dl.pc = "removeTemp"
  /\ \/ dl' = [dl EXCEPT !.pc = "returned", !.temp = "absent"]
     \/ dl' = Catch("removeTemp")
  /\ UNCHANGED <<catalogVars, rq, od, rw, pr, wh>>

\* line 82: fs.move with overwrite.
Move ==
  /\ dl.pc = "move"
  /\ \/ dl' = [dl EXCEPT !.pc = "returned", !.temp = "absent",
                         !.final = "complete"]
     \/ \E f \in {dl.final, "partial"} :
          dl' = [Catch("move") EXCEPT !.final = f]
  /\ UNCHANGED <<catalogVars, rq, od, rw, pr, wh>>

\* lines 90-91: what a successful fs.remove leaves of a file.
RemovedKeeps(file) == file

Removed(file) == "absent"

\* line 90: removal of the temporary file; a rejection is logged only.
CatchRemoveTemp ==
  /\ dl.pc = "catchTemp"
  /\ \/ dl' = [dl EXCEPT !.pc = "catchFinal", !.temp = Removed(dl.temp)]
     \/ /\ dl.temp # "absent"
        /\ dl' = [dl EXCEPT !.pc = "catchFinal", !.cleanupFailed = TRUE]
  /\ UNCHANGED <<catalogVars, rq, od, rw, pr, wh>>

\* lines 91-92: removal of the final CSV, a rejection is logged only; then
\* the ExternalServiceError that wraps the cause is thrown.
CatchRemoveFinal ==
  /\ dl.pc = "catchFinal"
  /\ \/ dl' = [Thrown("ExternalServiceError", dl.cause)
                 EXCEPT !.final = Removed(dl.final)]
     \/ /\ dl.final # "absent"
        /\ dl' = [Thrown("ExternalServiceError", dl.cause)
                    EXCEPT !.cleanupFailed = TRUE]
  /\ UNCHANGED <<catalogVars, rq, od, rw, pr, wh>>

\* -------------------------------------------- IEEE 754 binary64 arithmetic
\* The numbers of the price calculation are JavaScript numbers. A natural
\* number of any size is a sequence of limbs in base LimbBase, least
\* significant limb first, without leading zero limb (zero is <<>>).
LimbBase == 8192
LimbBits == 13
MantissaBits == 53

RECURSIVE BigNorm(_)
BigNorm(a) ==
  IF a = <<>> THEN <<>>
  ELSE IF a[Len(a)] = 0 THEN BigNorm(SubSeq(a, 1, Len(a) - 1)) ELSE a

RECURSIVE BigOfInt(_)
BigOfInt(n) ==
  IF n = 0 THEN <<>> ELSE <<n % LimbBase>> \o BigOfInt(n \div LimbBase)

RECURSIVE BigToInt(_)
BigToInt(a) ==
  IF a = <<>> THEN 0 ELSE a[1] + LimbBase * BigToInt(Tail(a))

RECURSIVE BigAddCarry(_, _, _)
BigAddCarry(a, b, carry) ==
  IF a = <<>> /\ b = <<>> THEN (IF carry = 0 THEN <<>> ELSE <<carry>>)
  ELSE LET x == IF a = <<>> THEN 0 ELSE a[1]
           y == IF b = <<>> THEN 0 ELSE b[1]
           s == x + y + carry
       IN <<s % LimbBase>>
            \o BigAddCarry(IF a = <<>> THEN a ELSE Tail(a),
                           IF b = <<>> THEN b ELSE Tail(b), s \div LimbBase)

BigAdd(a, b) == BigAddCarry(a, b, 0)

\* a * d for a small factor d (d < 2^17).
RECURSIVE BigMulSmallCarry(_, _, _)
BigMulSmallCarry(a, d, carry) ==
  IF a = <<>> THEN BigOfInt(carry)
  ELSE LET p == a[1] * d + carry
       IN <<p % LimbBase>> \o BigMulSmallCarry(Tail(a), d, p \div LimbBase)

BigMulSmall(a, d) == BigNorm(BigMulSmallCarry(a, d, 0))

RECURSIVE BigMul(_, _)
BigMul(a, b) ==
  IF b = <<>> \/ a = <<>> THEN <<>>
  ELSE BigAdd(BigMulSmall(a, b[1]),
              LET rest == BigMul(a, Tail(b))
              IN IF rest = <<>> THEN <<>> ELSE <<0>> \o rest)

\* Quotient and remainder of a by a small divisor d (d < 2^17), from the
\* most significant limb down.
RECURSIVE BigDivSmallFrom(_, _, _)
BigDivSmallFrom(a, d, i) ==
  IF i > Len(a) THEN [q |-> <<>>, r |-> 0]
  ELSE LET hi == BigDivSmallFrom(a, d, i + 1)
           cur == hi.r * LimbBase + a[i]
       IN [q |-> <<cur \div d>> \o hi.q, r |-> cur % d]

BigDivSmall(a, d) ==
  LET res == BigDivSmallFrom(a, d, 1)
  IN [q |-> BigNorm(res.q), r |-> res.r]

RECURSIVE TwoTo(_)
TwoTo(k) == IF k = 0 THEN 1 ELSE 2 * TwoTo(k - 1)

RECURSIVE IntBitLen(_)
IntBitLen(n) == IF n = 0 THEN 0 ELSE 1 + IntBitLen(n \div 2)

BigBitLen(a) ==
  IF a = <<>> THEN 0 ELSE LimbBits * (Len(a) - 1) + IntBitLen(a[Len(a)])

Zeros(n) == [i \in 1..n |-> 0]

\* a * 2^k
BigShl(a, k) ==
  IF a = <<>> THEN <<>>
  ELSE Zeros(k \div LimbBits) \o BigMulSmall(a, TwoTo(k % LimbBits))

\* floor(a / 2^k), and whether a non-zero bit was dropped.
BigShr(a, k) ==
  LET limbs == k \div LimbBits
  IN IF limbs >= Len(a) THEN [q |-> <<>>, lost |-> a # <<>>]
     ELSE LET d == BigDivSmall(SubSeq(a, limbs + 1, Len(a)),
                               TwoTo(k % LimbBits))
          IN [q |-> d.q,
              lost |-> d.r # 0 \/ \E i \in 1..limbs : a[i] # 0]

BigIsOdd(a) == a # <<>> /\ a[1] % 2 = 1

\* A finite non-negative double is m * 2^e with 2^52 <= m < 2^53, or zero.
DblZero == [m |-> <<>>, e |-> 0]

\* Round-to-nearest, ties-to-even, of n * 2^e (plus, when `sticky`, a
\* positive amount below 2^e) to 53 significant bits.
DblRound(n, e, sticky) ==
  IF n = <<>> THEN DblZero
  ELSE LET len == BigBitLen(n)
       IN IF len <= MantissaBits
          THEN [m |-> BigShl(n, MantissaBits - len),
                e |-> e - (MantissaBits - len)]
          ELSE LET k == len - MantissaBits
                   s1 == BigShr(n, k - 1)
                   half == BigIsOdd(s1.q)
                   below == sticky \/ s1.lost
                   q == BigShr(s1.q, 1).q
                   up == half /\ (below \/ BigIsOdd(q))
                   m == IF up THEN BigAdd(q, <<1>>) ELSE q
               IN IF BigBitLen(m) > MantissaBits
                  THEN [m |-> BigShr(m, 1).q, e |-> e + k + 1]
                  ELSE [m |-> m, e |-> e + k]

\* Number(n) for a small non-negative integer.
DblOfInt(n) == DblRound(BigOfInt(n), 0, FALSE)

\* The double denoted by the decimal literal num / 10^scale (scale <= 5).
GuardBits == 117

RECURSIVE TenTo(_)
TenTo(k) == IF k = 0 THEN 1 ELSE 10 * TenTo(k - 1)

DblOfDecimal(num, scale) ==
  LET d == BigDivSmall(BigShl(BigOfInt(num), GuardBits), TenTo(scale))
  IN DblRound(d.q, -GuardBits, d.r # 0)

\* x * y
DblMul(x, y) == DblRound(BigMul(x.m, y.m), x.e + y.e, FALSE)

\* x + y
DblAdd(x, y) ==
  IF x.m = <<>> THEN y
  ELSE IF y.m = <<>> THEN x
  ELSE LET e == Min(x.e, y.e)
       IN DblRound(BigAdd(BigShl(x.m, x.e - e), BigShl(y.m, y.e - e)),
                   e, FALSE)

\* x / d for a small positive integer d
DblDivInt(x, d) ==
  LET q == BigDivSmall(BigShl(x.m, GuardBits), d)
  IN DblRound(q.q, x.e - GuardBits, q.r # 0)

\* Number.prototype.toFixed(2) of a finite non-negative double: the
\* integer n for which n / 100 is closest to x, the larger of two.
Hundredths(x) ==
  LET n == BigMulSmall(x.m, 100)
  IN IF x.e >= 0 THEN BigToInt(BigShl(n, x.e))
     ELSE BigToInt(BigShr(BigAdd(n, BigShl(<<1>>, -x.e - 1)), -x.e).q)

TwoDigits(n) == IF n < 10 THEN "0" \o ToString(n) ELSE ToString(n)

FixedString(n) == ToString(n \div 100) \o "." \o TwoDigits(n % 100)

ToFixed2(x) == FixedString(Hundredths(x))

\* ------------------------------------------------ priceCalculationService
\* A JavaScript value handed to the price calculation: a number (the
\* decimal num / 10^scale, negated when neg, or NaN) or something else.
JsNumber(num, scale) ==
  [type |-> "number", nan |-> FALSE, neg |-> FALSE, num |-> num,
   scale |-> scale]
JsNegative(num, scale) == [JsNumber(num, scale) EXCEPT !.neg = TRUE]
JsNaN == [JsNumber(0, 0) EXCEPT !.nan = TRUE]
JsString == [JsNumber(0, 0) EXCEPT !.type = "string"]

\* The double of a non-negative number value.
DblOf(v) == DblOfDecimal(v.num, v.scale)

\* Prices and shipping fees (KRW) a caller may pass.
KrwAmounts ==
  {JsNumber(0, 0), JsNumber(50, 0), JsNumber(10000, 0), JsNegative(1, 0),
   JsNaN, JsString}
KrwShippingFees == {JsNumber(0, 0), JsNumber(3000, 0), JsNegative(1, 0), JsNaN}

\* What getKrwToUsdRate does: it throws, or resolves to a value.
RateThrows == [JsNumber(0, 0) EXCEPT !.type = "throws"]
Rates ==
  {RateThrows, JsNumber(75, 5), JsNumber(72, 5), JsNumber(0, 0),
   JsNegative(75, 5), JsNaN, JsString}

\* config.priceCalculation.markupPercentage and handlingFeeUsd
MarkupPercentages == {0, 20}
HandlingFees == {JsNumber(0, 0), JsNumber(2, 0)}

NoPrice == [kind |-> "none", price |-> "", total |-> 0]
NullCost == [kind |-> "null", price |-> "", total |-> 0]

IdlePrice ==
  [pc |-> "idle", fn |-> "calculateShopifyPriceUsd",
   bunjangPriceKrw |-> JsNumber(0, 0),
   bunjangShippingFeeKrw |-> JsNumber(0, 0), rate |-> RateThrows,
   markupPercentage |-> 0, handlingFeeUsd |-> JsNumber(0, 0),
   result |-> NoPrice, error |-> "none"]

\* typeof v !== 'number' || isNaN(v) || v < 0
IsInvalidAmount(v) == v.type # "number" \/ v.nan \/ v.neg

\* typeof v !== 'number' || isNaN(v) || v <= 0 (line 20)
IsInvalidRateZeroAllowed(v) == v.type # "number" \/ v.nan \/ v.neg

IsInvalidRate(v) == v.type # "number" \/ v.nan \/ v.neg \/ v.num = 0

\* convertKrwToUsd: the error it throws, or the product.
ConvertKrwToUsd(krwAmount, krwToUsdRate) ==
  IF IsInvalidAmount(krwAmount)
  THEN [error |-> "ValidationError", value |-> DblZero]
  ELSE IF IsInvalidRate(krwToUsdRate)
  THEN [error |-> "INVALID_EXCHANGE_RATE_INTERNAL", value |-> DblZero]
  ELSE [error |-> "none",
        value |-> DblMul(DblOf(krwAmount), DblOf(krwToUsdRate))]

\* lines 57-58: priceInUsdBeforeMarkup * (1 + markupPercentage / 100)
AfterMarkup(priceInUsdBeforeMarkup, markupPercentage) ==
  DblMul(priceInUsdBeforeMarkup,
         DblAdd(DblOfInt(1), DblDivInt(DblOfInt(markupPercentage), 100)))

\* lines 54-67: the listing price from a rate that was obtained.
ShopifyPriceString(bunjangPriceKrw, krwToUsdRate, markup, handlingFeeUsd) ==
  LET priceInUsdBeforeMarkup ==
        ConvertKrwToUsd(bunjangPriceKrw, krwToUsdRate).value
      priceAfterMarkup == AfterMarkup(priceInUsdBeforeMarkup, markup)
      finalPriceUsd == DblAdd(priceAfterMarkup, DblOf(handlingFeeUsd))
  IN ToFixed2(finalPriceUsd)

PriceThrown(error) == [pr EXCEPT !.pc = "thrown", !.error = error]

\* calculateShopifyPriceUsd, lines 38-40: the test of the amount.
PriceValidate ==
  /\ pr.pc = "start" /\ pr.fn = "calculateShopifyPriceUsd"
  /\ pr' = IF IsInvalidAmount(pr.bunjangPriceKrw)
           THEN PriceThrown("ValidationError")
           ELSE [pr EXCEPT !.pc = "rate"]
  /\ UNCHANGED <<catalogVars, rq, od, rw, dl, wh>>

\* calculateShopifyPriceUsd, lines 42-71: getKrwToUsdRate settles; its
\* error is wrapped, its value goes through convertKrwToUsd.
PriceFromRate ==
  /\ pr.pc = "rate" /\ pr.fn = "calculateShopifyPriceUsd"
  /\ pr' =
       IF pr.rate.type = "throws"
       THEN PriceThrown("EXCHANGE_RATE_UNAVAILABLE_FOR_PRICE_CALC")
       ELSE LET usd == ConvertKrwToUsd(pr.bunjangPriceKrw, pr.rate)
            IN IF usd.error # "none" THEN PriceThrown(usd.error)
               ELSE [pr EXCEPT
                       !.pc = "returned",
                       !.result =
                          [kind |-> "price", total |-> 0,
                           price |-> ShopifyPriceString(
                                       pr.bunjangPriceKrw, pr.rate,
                                       pr.markupPercentage,
                                       pr.handlingFeeUsd)]]
  /\ UNCHANGED <<catalogVars, rq, od, rw, dl, wh>>

\* calculateInternalTotalCostUsd, lines 83-87: invalid input gives null.
CostValidate ==
  /\ pr.pc = "start" /\ pr.fn = "calculateInternalTotalCostUsd"
  /\ pr' = IF \/ IsInvalidAmount(pr.bunjangPriceKrw)
              \/ IsInvalidAmount(pr.bunjangShippingFeeKrw)
           THEN [pr EXCEPT !.pc = "returned", !.result = NullCost]
           ELSE [pr EXCEPT !.pc = "rate"]
  /\ UNCHANGED <<catalogVars, rq, od, rw, dl, wh>>

\* lines 97-114: totalEstimatedCostUsd, in hundredths as toFixed(2) gives.
TotalEstimatedCostUsd(priceKrw, shippingFeeKrw, rate, markup, handlingFeeUsd) ==
  LET itemPriceUsd ==
        AfterMarkup(ConvertKrwToUsd(priceKrw, rate).value, markup)
      shippingFeeUsd == ConvertKrwToUsd(shippingFeeKrw, rate).value
  IN Hundredths(DblAdd(DblAdd(itemPriceUsd, shippingFeeUsd),
                       DblOf(handlingFeeUsd)))

\* calculateInternalTotalCostUsd, lines 89-118: a throwing rate service
\* gives null; convertKrwToUsd is called outside any try block.
CostFromRate ==
  /\ pr.pc = "rate" /\ pr.fn = "calculateInternalTotalCostUsd"
  /\ pr' =
       IF pr.rate.type = "throws"
       THEN [pr EXCEPT !.pc = "returned", !.result = NullCost]
       ELSE LET usd == ConvertKrwToUsd(pr.bunjangPriceKrw, pr.rate)
            IN IF usd.error # "none" THEN PriceThrown(usd.error)
               ELSE [pr EXCEPT
                       !.pc = "returned",
                       !.result =
                          [kind |-> "cost", price |-> "",
                           total |-> TotalEstimatedCostUsd(
                                       pr.bunjangPriceKrw,
                                       pr.bunjangShippingFeeKrw, pr.rate,
                                       pr.markupPercentage,
                                       pr.handlingFeeUsd)]]
  /\ UNCHANGED <<catalogVars, rq, od, rw, dl, wh>>

\* ---------------------------------------------------- verifyShopifyWebhook
\* config.shopify.webhookSecret: not configured, or a secret.
WebhookSecrets == {"undefined", "secret1", "secret2"}

\* req.rawBody: not set, an empty Buffer, or a Buffer with content.
RawBodies == {"undefined", "empty", "body1", "body2"}

\* The length of the base64 text of a SHA-256 digest.
DigestLength == 44

\* createHmac('sha256', secret).update(rawBody).digest('base64'): a text of
\* DigestLength characters that differs for different secrets or bodies.
HmacSha256Base64(secret, rawBody) ==
  [kind |-> "text", secret |-> secret, body |-> rawBody,
   length |-> DigestLength]

\* req.get('X-Shopify-Hmac-Sha256'): no header, '', a text shorter than a
\* digest, a text as long as a digest that is none, or the digest of a body
\* under a secret.
NoHmacHeader == [kind |-> "undefined", secret |-> "", body |-> "", length |-> 0]
HmacHeaders ==
  {NoHmacHeader}
  \cup [kind : {"text"}, secret : {""}, body : {""},
        length : {0, DigestLength - 1, DigestLength}]
  \cup {HmacSha256Base64(k, b) : k \in {"secret1", "secret2"},
                                 b \in {"body1", "body2"}}

\* What the middleware throws or catches: the class, the status and the
\* error code.
WebhookError(name, status, code) ==
  [name |-> name, status |-> status, code |-> code]

NoWebhookError == WebhookError("none", 0, "none")

IdleWebhook ==
  [pc |-> "idle", hmacHeader |-> NoHmacHeader, rawBody |-> "undefined",
   secret |-> "undefined", appErrorInScope |-> FALSE, nextCalls |-> 0,
   caught |-> NoWebhookError, error |-> NoWebhookError]

\* lines 20-23: `if (!hmacHeader)`: no header or the empty text.
CheckHmacHeader ==
  /\ wh.pc = "start"
  /\ wh' = IF wh.hmacHeader.kind = "undefined" \/ wh.hmacHeader.length = 0
           THEN [wh EXCEPT !.pc = "thrown",
                   !.error = WebhookError("UnauthorizedError", 401,
                                          "HMAC_MISSING")]
           ELSE [wh EXCEPT !.pc = "rawBody"]
  /\ UNCHANGED <<catalogVars, rq, od, rw, dl, pr>>

\* lines 26-30: `if (!rawBody || rawBody.length === 0)`.
CheckRawBody ==
  /\ wh.pc = "rawBody"
  /\ wh' = IF wh.rawBody \in {"undefined", "empty"}
           THEN [wh EXCEPT !.pc = "thrown",
                   !.error = WebhookError("ApiError", 400,
                                          "RAW_BODY_MISSING")]
           ELSE [wh EXCEPT !.pc = "verify"]
  /\ UNCHANGED <<catalogVars, rq, od, rw, dl, pr>>

\* line 42: the comparison of the two buffers, lengths first.
SignaturesMatch(hmacHeader, generatedHash) ==
  /\ hmacHeader.length = generatedHash.length
  /\ hmacHeader = generatedHash

\* lines 32-50: the try block: createHmac throws a TypeError without a
\* secret; next() is called when the signatures match; otherwise
\* UnauthorizedError is thrown inside the try.
VerifySignature ==
  /\ wh.pc = "verify"
  /\ wh' = IF wh.secret = "undefined"
           THEN [wh EXCEPT !.pc = "catch",
                   !.caught = WebhookError("TypeError", 0,
                                           "ERR_INVALID_ARG_TYPE")]
           ELSE IF SignaturesMatch(wh.hmacHeader,
                                   HmacSha256Base64(wh.secret, wh.rawBody))
           THEN [wh EXCEPT !.pc = "returned", !.nextCalls = @ + 1]
           ELSE [wh EXCEPT !.pc = "catch",
                   !.caught = WebhookError("UnauthorizedError", 401,
                                           "HMAC_INVALID")]
  /\ UNCHANGED <<catalogVars, rq, od, rw, dl, pr>>

\* `error instanceof AppError`: the error classes of utils/customErrors
\* derive from AppError (line 55: an AppError is thrown on as it is).
IsAppError(error) == error.name \in {"UnauthorizedError", "ApiError", "AppError"}

\* lines 51-57: the catch block. The name AppError is evaluated at line 55;
\* the module (lines 1-60) imports UnauthorizedError and ApiError only
\* (line 7), so the evaluation throws a ReferenceError unless the name
\* resolves otherwise.
CatchVerificationError ==
  /\ wh.pc = "catch"
  /\ wh' = IF ~wh.appErrorInScope
           THEN [wh EXCEPT !.pc = "thrown",
                   !.error = WebhookError("ReferenceError", 0, "none")]
           ELSE IF IsAppError(wh.caught)
           THEN [wh EXCEPT !.pc = "thrown", !.error = wh.caught]
           ELSE [wh EXCEPT !.pc = "thrown",
                   !.error = WebhookError("AppError", 500,
                                          "HMAC_VERIFICATION_ERROR")]
  /\ UNCHANGED <<catalogVars, rq, od, rw, dl, pr>>

InitCatalog ==
  /\ docs = {}
  /\ products = <<>>
  /\ forceResyncAll \in BOOLEAN
  /\ concurrency \in 1..MaxConcurrency
  /\ bunjangProducts = <<>>
  /\ failing = FALSE
  /\ bpc = "idle"
  /\ chunkStart = 1
  /\ summary = ZeroSummary(0)
  /\ runs = 0
  /\ scenario \in Scenarios

Init == InitCatalog /\ rq = IdleRequest /\ od = IdleOrder /\ rw = IdleRow
  /\ wh = IdleWebhook
  /\ pr = IdlePrice
  /\ dl = IdleDownload
  /\ tasks = <<>>

Next ==
  \/ StartBatch
  \/ ChunkSettled
  \/ \E i \in TaskIds : FindOneBefore(i)
  \/ \E i \in TaskIds : UpsertAttempt(i)
  \/ \E i \in TaskIds : ReadAndDecide(i)
  \/ \E i \in TaskIds : TagLookup(i)
  \/ \E i \in TaskIds : CalculatePrice(i)
  \/ \E i \in TaskIds : QueryExistingVariant(i)
  \/ \E i \in TaskIds : UpdateProduct(i)
  \/ \E i \in TaskIds : UpdateVariant(i)
  \/ \E i \in TaskIds : CreateProduct(i)
  \/ \E i \in TaskIds : AppendMedia(i)
  \/ \E i \in TaskIds : WriteSynced(i)
  \/ \E i \in TaskIds : WriteError(i)

Spec == Init /\ [][Next]_vars

\* A call of shopifyGraphqlRequest on its own.
InitRetry ==
  /\ docs = {} /\ products = <<>> /\ forceResyncAll = FALSE
  /\ concurrency = 1 /\ bunjangProducts = <<>> /\ failing = FALSE
  /\ bpc = "idle" /\ chunkStart = 1 /\ summary = ZeroSummary(0)
  /\ runs = 0 /\ scenario = [maxLen |-> 0, maxRuns |-> 0] /\ tasks = <<>>
  /\ rq = IdleRequest /\ od = IdleOrder /\ rw = IdleRow
  /\ wh = IdleWebhook
  /\ pr = IdlePrice
  /\ dl = IdleDownload

NextRetry ==
  \/ RequestStart
  \/ RequestInvoke
  \/ RequestWake

\* The event loop runs every continuation that is ready, and every remote
\* call and store operation completes or fails (bounded timeouts); when a
\* new feed is processed is up to the scheduler of the job.
TaskStep(i) ==
  \/ FindOneBefore(i) \/ UpsertAttempt(i) \/ ReadAndDecide(i)
  \/ TagLookup(i) \/ CalculatePrice(i) \/ QueryExistingVariant(i)
  \/ UpdateProduct(i) \/ UpdateVariant(i) \/ CreateProduct(i)
  \/ AppendMedia(i) \/ WriteSynced(i) \/ WriteError(i)

FairSpec ==
  /\ Spec
  /\ WF_vars(ChunkSettled)
  /\ \A i \in TaskIds : WF_vars(TaskStep(i))

SpecRetry == InitRetry /\ [][NextRetry]_vars

\* A call of processShopifyOrderForBunjang on its own, for any inbound order.
InitOrder ==
  /\ docs = {} /\ products = <<>> /\ forceResyncAll = FALSE
  /\ concurrency = 1 /\ bunjangProducts = <<>> /\ failing = FALSE
  /\ bpc = "idle" /\ chunkStart = 1 /\ summary = ZeroSummary(0)
  /\ runs = 0 /\ scenario = [maxLen |-> 0, maxRuns |-> 0] /\ tasks = <<>>
  /\ rq = IdleRequest /\ rw = IdleRow
  /\ wh = IdleWebhook
  /\ pr = IdlePrice
  /\ dl = IdleDownload
  /\ \E order \in Orders : od = [IdleOrder EXCEPT !.pc = "start",
                                                  !.order = order]

NextOrder ==
  \/ OrderValidate
  \/ SkipItem
  \/ GetBunjangProductDetails
  \/ UpdateOrderNotFound
  \/ CreateBunjangOrderV2
  \/ UpdateOrderPlaced
  \/ UpdateOrderException
  \/ ReturnResult

SpecOrder == InitOrder /\ [][NextOrder]_vars

\* processCatalogRow on its own, for any row and allow-list.
InitRow ==
  /\ docs = {} /\ products = <<>> /\ forceResyncAll = FALSE
  /\ concurrency = 1 /\ bunjangProducts = <<>> /\ failing = FALSE
  /\ bpc = "idle" /\ chunkStart = 1 /\ summary = ZeroSummary(0)
  /\ runs = 0 /\ scenario = [maxLen |-> 0, maxRuns |-> 0] /\ tasks = <<>>
  /\ rq = IdleRequest /\ od = IdleOrder
  /\ wh = IdleWebhook
  /\ pr = IdlePrice
  /\ dl = IdleDownload
  /\ \E row \in Rows, f \in FilterLists :
       rw = [IdleRow EXCEPT !.pc = "row", !.row = row,
                            !.filterCategoryIds = f]

NextRow ==
  \/ RowProcessed
  \/ RowTransformed

SpecRow == InitRow /\ [][NextRow]_vars

\* fetchAndProcessBunjangCatalog up to the parse, for any catalog type,
\* configuration and earlier final CSV.
InitFetch ==
  /\ docs = {} /\ products = <<>> /\ forceResyncAll = FALSE
  /\ concurrency = 1 /\ bunjangProducts = <<>> /\ failing = FALSE
  /\ bpc = "idle" /\ chunkStart = 1 /\ summary = ZeroSummary(0)
  /\ runs = 0 /\ scenario = [maxLen |-> 0, maxRuns |-> 0] /\ tasks = <<>>
  /\ rq = IdleRequest /\ od = IdleOrder /\ rw = IdleRow
  /\ wh = IdleWebhook
  /\ pr = IdlePrice
  /\ \E type \in CatalogTypes, url \in BOOLEAN, f \in {"absent", "stale"} :
       dl = [IdleDownload EXCEPT !.pc = "start", !.catalogType = type,
                                 !.urlConfigured = url, !.final = f]

NextFetch ==
  \/ FetchStart
  \/ CheckConfig
  \/ EnsureDir
  \/ GenerateBunjangAuthHeader
  \/ Request
  \/ DownloadPipeline
  \/ Stat
  \/ RemoveEmpty
  \/ Gunzip
  \/ RemoveTemp
  \/ Move
  \/ CatchRemoveTemp
  \/ CatchRemoveFinal

SpecFetch == InitFetch /\ [][NextFetch]_vars

\* One call of calculateShopifyPriceUsd or calculateInternalTotalCostUsd,
\* for any arguments, configuration and behaviour of the rate service.
InitPrice ==
  /\ docs = {} /\ products = <<>> /\ forceResyncAll = FALSE
  /\ concurrency = 1 /\ bunjangProducts = <<>> /\ failing = FALSE
  /\ bpc = "idle" /\ chunkStart = 1 /\ summary = ZeroSummary(0)
  /\ runs = 0 /\ scenario = [maxLen |-> 0, maxRuns |-> 0] /\ tasks = <<>>
  /\ rq = IdleRequest /\ od = IdleOrder /\ rw = IdleRow /\ dl = IdleDownload
  /\ wh = IdleWebhook
  /\ \E price \in KrwAmounts, rate \in Rates, markup \in MarkupPercentages,
        fee \in HandlingFees :
       \/ pr = [IdlePrice EXCEPT !.pc = "start", !.bunjangPriceKrw = price,
                                 !.rate = rate, !.markupPercentage = markup,
                                 !.handlingFeeUsd = fee]
       \/ \E shipping \in KrwShippingFees :
            pr = [IdlePrice EXCEPT !.pc = "start",
                                   !.fn = "calculateInternalTotalCostUsd",
                                   !.bunjangPriceKrw = price,
                                   !.bunjangShippingFeeKrw = shipping,
                                   !.rate = rate,
                                   !.markupPercentage = markup,
                                   !.handlingFeeUsd = fee]

NextPrice ==
  \/ PriceValidate
  \/ PriceFromRate
  \/ CostValidate
  \/ CostFromRate

SpecPrice == InitPrice /\ [][NextPrice]_vars

\* A call of verifyShopifyWebhook on its own.
InitWebhook ==
  /\ docs = {} /\ products = <<>> /\ forceResyncAll = FALSE
  /\ concurrency = 1 /\ bunjangProducts = <<>> /\ failing = FALSE
  /\ bpc = "idle" /\ chunkStart = 1 /\ summary = ZeroSummary(0)
  /\ runs = 0 /\ scenario = [maxLen |-> 0, maxRuns |-> 0] /\ tasks = <<>>
  /\ rq = IdleRequest /\ od = IdleOrder /\ rw = IdleRow
  /\ dl = IdleDownload /\ pr = IdlePrice
  /\ \E hmacHeader \in HmacHeaders, rawBody \in RawBodies,
        secret \in WebhookSecrets, appErrorInScope \in BOOLEAN :
       wh = [IdleWebhook EXCEPT !.pc = "start", !.hmacHeader = hmacHeader,
                                !.rawBody = rawBody, !.secret = secret,
                                !.appErrorInScope = appErrorInScope]

NextWebhook ==
  \/ CheckHmacHeader
  \/ CheckRawBody
  \/ VerifySignature
  \/ CatchVerificationError

SpecWebhook == InitWebhook /\ [][NextWebhook]_vars

\* client.query settles (the client has a request timeout) and the timer of
\* the backoff sleep fires.
FairSpecRetry == SpecRetry /\ WF_vars(NextRetry)

\* =================================================================== claims
\* No other record of the batch carries the external ID of record i.
Unique(i) ==
  \A j \in DOMAIN tasks : j # i => tasks[j].pid # tasks[i].pid

StatusIn(D, pid) ==
  LET M == {d \in D : d.bunjangPid = pid}
  IN IF M = {} THEN "none"
     ELSE (CHOOSE d \in M : \A e \in M : d.id <= e.id).syncStatus

\* C1: a record is skipped as unchanged if and only if its product was
\* SYNCED, the timestamp stored before this attempt is >= the feed record's
\* updatedAt, and forceResyncAll is not set.
C1_SkipIffUnchanged ==
  \A i \in DOMAIN tasks :
    (Unique(i) /\ tasks[i].pc = "fulfilled") =>
      (tasks[i].result = "skipped_no_change"
         <=> (/\ tasks[i].prevStatus = "SYNCED"
              /\ tasks[i].prevUpdatedAt >= tasks[i].updatedAt
              /\ ~forceResyncAll))

\* C2: a re-run without upstream failure of a batch whose records all
\* ended in ERROR leaves every record SYNCED and at most one destination
\* product per external ID.
C2_RerunConverges ==
  (/\ bpc = "done" /\ ~failing /\ Len(bunjangProducts) > 0
   /\ \A i \in DOMAIN tasks : Unique(i) /\ tasks[i].prevStatus = "ERROR")
  => \A i \in DOMAIN tasks :
       /\ StatusIn(docs, tasks[i].pid) = "SYNCED"
       /\ Cardinality(TaggedGids(tasks[i].pid)) <= 1

\* C3: the identical record fed again after its successful sync is
\* skipped as unchanged, counted in skippedNoChange, and its attempt makes
\* no remote call.
C3_UnchangedRoundTrip ==
  /\ \A i \in DOMAIN tasks :
       (/\ Unique(i) /\ tasks[i].pc = "fulfilled"
        /\ tasks[i].prevStatus = "SYNCED"
        /\ tasks[i].prevUpdatedAt = tasks[i].updatedAt
        /\ ~forceResyncAll)
       => (tasks[i].result = "skipped_no_change" /\ ~tasks[i].called)
  /\ bpc = "done" =>
       summary.skippedNoChange =
         Cardinality({i \in DOMAIN tasks :
                        tasks[i].result = "skipped_no_change"})

C3_Witness ==
  /\ bpc = "done" /\ summary.skippedNoChange = 1
  /\ \E i \in DOMAIN tasks :
       /\ tasks[i].prevStatus = "SYNCED"
       /\ tasks[i].prevUpdatedAt = tasks[i].updatedAt
       /\ tasks[i].result = "skipped_no_change" /\ ~tasks[i].called

\* A step in which record i's outcome write (SYNCED or ERROR) is applied.
OutcomeWrite(i) ==
  /\ i \in DOMAIN tasks /\ i \in DOMAIN tasks'
  /\ tasks[i].pc \in {"writeSynced", "writeError"}
  /\ tasks'[i].pc = "fulfilled"

ListedTransitions ==
  {<<"PENDING", "SYNCED">>, <<"PENDING", "SKIPPED_FILTER">>,
   <<"PENDING", "ERROR">>, <<"SYNCED", "SYNCED">>, <<"SYNCED", "ERROR">>,
   <<"ERROR", "SYNCED">>, <<"SKIPPED_FILTER", "SYNCED">>}

\* Every outcome write, and every change of a stored syncStatus, is a
\* transition of the set T (the creation of a record as PENDING aside).
TransitionsWithin(T) ==
  /\ \A i \in TaskIds :
       OutcomeWrite(i) =>
         <<StatusIn(docs, tasks[i].pid), StatusIn(docs', tasks[i].pid)>> \in T
  /\ \A pid \in Pids :
       (StatusIn(docs, pid) # StatusIn(docs', pid)
        /\ StatusIn(docs, pid) # "none") =>
         <<StatusIn(docs, pid), StatusIn(docs', pid)>> \in T

\* C4 as stated, for feeds that carry each external ID once: every
\* syncStatus transition is one of the listed ones.
C4_ListedTransitionsOnly ==
  [][(\A i \in DOMAIN tasks : Unique(i))
       => TransitionsWithin(ListedTransitions)]_vars

\* C4 amended: every syncStatus transition is one of the listed ones or
\* ERROR -> ERROR (a failed attempt on a product already in ERROR).
C4_TransitionsAmended ==
  [][TransitionsWithin(ListedTransitions \cup {<<"ERROR", "ERROR">>})]_vars

C4_Witness ==
  \E i \in DOMAIN tasks :
    /\ Unique(i) /\ tasks[i].prevStatus = "ERROR"
    /\ tasks[i].result = "error"
    /\ StatusIn(docs, tasks[i].pid) = "ERROR"

\* C5: once an attempt has made a remote call its attempt record is stored
\* (counted in syncAttemptCount while no other attempt on the same ID runs),
\* and an attempt that may still make a remote call has not written its
\* outcome.
C5_AttemptBeforeOutcomeAfter ==
  \A i \in DOMAIN tasks :
    /\ (tasks[i].called /\ InFlight(tasks[i])) =>
         /\ FindOne(tasks[i].pid) # NoDoc
         /\ Unique(i) => FindOne(tasks[i].pid).syncAttemptCount
                            = tasks[i].prevAttempts + 1
    /\ tasks[i].pc \in {"findOne", "upsert"} => ~tasks[i].called
    /\ InFlight(tasks[i]) => tasks[i].result = "none"
    /\ tasks[i].result \in {"success", "error"} => tasks[i].pc = "fulfilled"

C5_Witness ==
  \E i \in DOMAIN tasks :
    /\ Unique(i) /\ tasks[i].pc = "update" /\ tasks[i].called
    /\ tasks[i].prevStatus = "SYNCED"
    /\ FindOne(tasks[i].pid).syncAttemptCount = 1

\* C6: a failing or rejecting record never aborts the batch: the batch
\* never rejects, and when it returns every record has been attempted.
C6_NoBatchAbort ==
  /\ bpc # "rejected"
  /\ bpc = "done" =>
       \A i \in DOMAIN tasks : tasks[i].starts = 1 /\ Settled(tasks[i])

C6_Witness ==
  /\ bpc = "done"
  /\ \E i, j \in DOMAIN tasks :
       /\ i < j /\ tasks[i].result = "rejected"
       /\ tasks[j].result = "success"

\* C7: the four counters of the returned summary add up to
\* validProductsToProcess, the number of valid records.
C7_SummaryAddsUp ==
  bpc = "done" =>
    /\ summary.validProductsToProcess = Len(bunjangProducts)
    /\ summary.successfullyProcessed + summary.errors
         + summary.skippedByFilter + summary.skippedNoChange
       = summary.validProductsToProcess

C7_Witness ==
  /\ bpc = "done" /\ Len(bunjangProducts) = 2
  /\ summary.errors = 2 /\ tasks[1].result = "rejected"
  /\ tasks[2].result = "error"

\* C8: records run in consecutive groups of at most `concurrency`: never
\* more than `concurrency` syncs in flight, a record starts only after
\* every record of the earlier groups has settled, each record starts once,
\* and the batch proceeds as soon as its current group has settled; a batch
\* whose record syncs all terminate returns.
GroupOf(i) == (i - 1) \div concurrency

C8_BoundedGroups ==
  /\ Cardinality({i \in DOMAIN tasks : InFlight(tasks[i])}) <= concurrency
  /\ \A i, j \in DOMAIN tasks :
       (GroupOf(i) < GroupOf(j) /\ tasks[j].pc # "new") => Settled(tasks[i])
  /\ \A i, j \in DOMAIN tasks :
       (GroupOf(i) = GroupOf(j) /\ tasks[j].pc # "new") => tasks[i].pc # "new"
  /\ \A i \in DOMAIN tasks :
       tasks[i].starts = IF tasks[i].pc = "new" THEN 0 ELSE 1
  /\ bpc = "done" => \A i \in DOMAIN tasks : Settled(tasks[i])
  /\ (bpc = "await" /\ \A i \in DOMAIN tasks : ~InFlight(tasks[i]))
       => ENABLED ChunkSettled

C8_Terminates == (bpc = "await") ~> (bpc = "done")

C10_RetryClassification ==
  LET retryable == \/ rq.err.status = 429
                   \/ rq.err.status \in 500..599
                   \/ rq.err.throttled
  IN /\ rq.pc = "sleep" => retryable
     /\ (rq.err # NoErr
         /\ (~retryable \/ rq.err.kind # "GraphqlQueryError")) =>
          (rq.pc = "raised" /\ rq.invocations = rq.attempt + 1)

C10_Witness ==
  /\ rq.pc = "raised" /\ rq.err.status = 404 /\ ~rq.err.throttled
  /\ rq.invocations = 1

\* An error that the loop classifies as retryable.
Retryable(e) ==
  e.kind = "GraphqlQueryError"
    /\ (e.status = 429 \/ e.status \in 500..599 \/ e.throttled)

\* C11 as stated: the operation is never invoked more than
\* MAX_SHOPIFY_RETRIES times, and the terminal error after retryable
\* failures only comes with the MAX_SHOPIFY_RETRIES-th failure.
C11_AtMostMaxRetriesInvocations ==
  /\ rq.invocations <= MAX_SHOPIFY_RETRIES
  /\ (rq.pc = "raised" /\ Retryable(rq.err)) =>
       rq.invocations = MAX_SHOPIFY_RETRIES

C11_RetryBound ==
  /\ rq.invocations <= MAX_SHOPIFY_RETRIES + 1
  /\ rq.pc = "sleep" => rq.attempt < MAX_SHOPIFY_RETRIES
  /\ (rq.pc = "raised" /\ Retryable(rq.err)) =>
       /\ rq.invocations = MAX_SHOPIFY_RETRIES + 1
       /\ rq.cause = rq.err

\* C11 amended: the operation is invoked at most MAX_SHOPIFY_RETRIES + 1
\* times (one attempt and MAX_SHOPIFY_RETRIES retries); when every
\* invocation fails retryably the terminal error is raised at the
\* (MAX_SHOPIFY_RETRIES + 1)-th failure and carries that last cause; and
\* the call always terminates.
C11_RetryBoundAndTermination ==
  []C11_RetryBound /\ <>(rq.pc \in {"returned", "raised"})

C11_Witness ==
  /\ rq.pc = "raised" /\ rq.err.status = 503
  /\ rq.invocations = MAX_SHOPIFY_RETRIES + 1 /\ rq.cause = rq.err

\* C12: a retryable response that carries a retry-after of s seconds delays
\* the next attempt by at least s * 1000 + 500 ms.
C12_RetryAfterHonoured ==
  (rq.pc = "sleep" /\ rq.err.retryAfter \notin {NoHeader, NaNHeader}) =>
    rq.delayMs >= rq.err.retryAfter * 1000 + 500

\* --------------------------------------------------------- order claims
\* The calls of one API made for line item i, as positions of the call log.
OrderCalls(api, i) ==
  {k \in 1..Len(od.calls) : od.calls[k].api = api /\ od.calls[k].item = i}

LinkedItems == {i \in 1..Len(od.order.line_items) :
                  od.order.line_items[i].linked}

\* C13: a create-order call that fails retryably (429 or 5xx) is retried
\* before its line item is treated as failed.
C13_CreateOrderRetried ==
  \A i \in LinkedItems :
    (/\ od.pc = "catch" /\ od.idx = i
     /\ \E k \in OrderCalls("createBunjangOrderV2", i) :
          od.calls[k].status \in {429, 503})
    => Cardinality(OrderCalls("createBunjangOrderV2", i)) >= 2

\* C14: after validation no exception of a line item reaches the caller.
C14_ItemExceptionsCaught ==
  od.pc = "threw" => ValidateOrder(od.order) # "ok"

\* The shipping fee of item i's product as getBunjangProductDetails gave it.
TrueFee(i) ==
  LET k == CHOOSE k \in OrderCalls("getBunjangProductDetails", i) : TRUE
  IN od.calls[k].details.shippingFee

PlacedUpdates(i) ==
  {k \in OrderCalls("updateOrder", i) :
     od.calls[k].tags = "BunjangOrderPlaced"}

\* C15: every create-order payload carries deliveryPrice 0, and the
\* metadata written for a placed order records the product's true shipping
\* fee next to the zero fee that was sent.
C15_ZeroFeeSentTrueFeeRecorded ==
  \A i \in LinkedItems :
    /\ \A k \in OrderCalls("createBunjangOrderV2", i) :
         od.calls[k].payload.deliveryPrice = 0
    /\ \A k \in PlacedUpdates(i) :
         /\ od.calls[k].metafields.api_sent_shipping_fee_krw = String(0)
         /\ od.calls[k].metafields.actual_bunjang_shipping_fee_krw
              = String(TrueFee(i))

\* The create-order calls that returned an order id, in the order made.
IsPlacement(c) == c.api = "createBunjangOrderV2" /\ c.returned # 0
Placements == SelectSeq(od.calls, IsPlacement)

\* C16: the result has success = TRUE iff some create-order call of this
\* invocation returned an order id, and the reported ids are exactly the
\* returned ones, in line-item order.
C16_SuccessIffOrderPlaced ==
  od.pc = "returned" =>
    /\ od.result.success <=> Len(Placements) >= 1
    /\ od.result.bunjangOrderIds
         = [k \in 1..Len(Placements) |-> String(Placements[k].returned)]
    /\ \A k, l \in 1..Len(Placements) :
         k < l => Placements[k].item < Placements[l].item

C16_Witness ==
  /\ od.pc = "returned" /\ od.result.success
  /\ Len(od.result.bunjangOrderIds) = 1
  /\ Cardinality(LinkedItems) = 2
  /\ Placements[1].item = 2

NotFoundItems ==
  {i \in LinkedItems :
     \E k \in OrderCalls("getBunjangProductDetails", i) :
       ~od.calls[k].details.found}

\* C17: for an item whose product is not found no source order is placed,
\* the destination order gets an error tag that references the product,
\* processing goes on, no exception reaches the caller, and an order with
\* just that item yields success = FALSE without source order ids.
C17_NotFoundIsNonFatal ==
  /\ \A i \in NotFoundItems :
       /\ OrderCalls("createBunjangOrderV2", i) = {}
       /\ ~(od.pc = "threw" /\ od.idx = i)
       /\ od.idx > i =>
            \E k \in OrderCalls("updateOrder", i) :
              /\ od.calls[k].status = 200
              /\ od.calls[k].tags \in {"NotFound", "Exception"}
              /\ od.calls[k].pid = PidOfSku(od.order.line_items[i])
  /\ (od.pc = "returned" /\ Len(od.order.line_items) = 1
        /\ NotFoundItems = {1})
       => od.result = [success |-> FALSE, bunjangOrderIds |-> <<>>]

\* C18: an order that is null, lacks an identifier or has no line items is
\* rejected with a ValidationError before any remote call.
C18_InvalidOrderRejected ==
  (od.order.kind # "valid" /\ od.pc # "start") =>
    /\ od.pc = "threw" /\ od.error = "ValidationError"
    /\ od.calls = <<>>

PlacedItems ==
  {i \in LinkedItems :
     \E k \in OrderCalls("createBunjangOrderV2", i) : od.calls[k].returned # 0}

\* The write-back of item i has been attempted.
WrittenBack(i) ==
  od.idx > i \/ (od.idx = i /\ od.pc \in {"catch", "threw"})

\* The call carries the linkage tags and every metadata field of item i.
CarriesTagsAndMetadata(k, i) ==
  LET c == od.calls[CHOOSE j \in OrderCalls("createBunjangOrderV2", i) : TRUE]
      m == od.calls[k].metafields
  IN /\ od.calls[k].tags = "BunjangOrderPlaced"
     /\ m.order_id = String(c.returned)
     /\ m.ordered_pid = String(c.pid)
     /\ m.ordered_item_price_krw = String(c.payload.product.price)
     /\ m.api_sent_shipping_fee_krw = String(c.payload.deliveryPrice)
     /\ m.actual_bunjang_shipping_fee_krw \in {String(f) : f \in 0..MaxFee}

ToBeDropped(row, filterCategoryIds) ==
  \/ ToUpperCase(Trim(row.saleStatus)) # "SELLING"
  \/ Trim(row.pid) = "" \/ Trim(row.name) = "" \/ row.price.nan
  \/ row.updatedAt # "valid"
  \/ (~row.price.nan /\ row.price.v < 0)
  \/ (~row.quantity.nan /\ row.quantity.v < 0)
  \/ (filterCategoryIds # {} /\ Trim(row.categoryId) \notin filterCategoryIds)

\* C20: processCatalogRow returns null exactly when saleStatus is not
\* SELLING, pid or name is empty, price is not numeric, updatedAt is missing
\* or invalid, price or quantity is negative, or the allow-list is
\* non-empty and lacks the row's categoryId (an empty categoryId included);
\* otherwise it returns the record.
C20_RowDroppedExactlyWhen ==
  rw.pc = "done" =>
    /\ rw.result = NullRow <=> ToBeDropped(rw.row, rw.filterCategoryIds)
    /\ rw.result # NullRow => rw.result = ProductOfRow(rw.row)

\* The row is acceptable but for its price and quantity.
OtherwiseAccepted(row, filterCategoryIds) ==
  /\ ToUpperCase(Trim(row.saleStatus)) = "SELLING"
  /\ Trim(row.pid) # "" /\ Trim(row.name) # ""
  /\ row.updatedAt = "valid" /\ row.createdAt # "invalid"
  /\ (filterCategoryIds # {} => Trim(row.categoryId) \in filterCategoryIds)

\* C21: an otherwise acceptable row with quantity 0 and a non-negative
\* price is accepted by processCatalogRow, and transformBunjangRowToShopifyInput
\* maps it to inventory quantity 0 with the inventory policy DENY; a row with
\* a negative price is dropped.
C21_ZeroQuantityAcceptedAndRestrictive ==
  /\ (/\ rw.pc \in {"done", "transformed"}
      /\ OtherwiseAccepted(rw.row, rw.filterCategoryIds)
      /\ rw.row.quantity = Num(0)
      /\ ~rw.row.price.nan /\ rw.row.price.v >= 0)
     => /\ rw.result # NullRow
        /\ rw.pc = "transformed" =>
             /\ rw.input.quantity = 0
             /\ rw.input.inventoryPolicy = "DENY"
  /\ (/\ rw.pc \in {"done", "transformed"}
      /\ ~rw.row.price.nan /\ rw.row.price.v < 0)
     => rw.result = NullRow

\* The first stored document of an external ID in the collection D.
DocIn(D, pid) ==
  LET M == {d \in D : d.bunjangPid = pid}
  IN CHOOSE d \in M : \A e \in M : d.id <= e.id

\* A step in which record i's SYNCED outcome write is applied.
SyncedWrite(i) ==
  /\ i \in DOMAIN tasks /\ i \in DOMAIN tasks'
  /\ tasks[i].pc = "writeSynced" /\ tasks'[i].pc = "fulfilled"

\* C22: the write that records SYNCED sets syncStatus to SYNCED,
\* syncErrorMessage and syncErrorStackSample to null, syncAttemptCount to 0
\* and adds exactly 1 to syncSuccessCount; no other write changes
\* syncSuccessCount, and it never decreases.
C22_SyncedWriteResetsAndCounts ==
  [][/\ \A i \in TaskIds :
          SyncedWrite(i) =>
            LET before == DocIn(docs, tasks[i].pid)
                after == DocIn(docs', tasks[i].pid)
            IN /\ after.syncStatus = "SYNCED"
               /\ after.syncErrorMessage = "null"
               /\ after.syncErrorStackSample = "null"
               /\ after.syncAttemptCount = 0
               /\ after.syncSuccessCount = before.syncSuccessCount + 1
     /\ \A d \in docs : \A e \in docs' :
          e.id = d.id =>
            /\ e.syncSuccessCount >= d.syncSuccessCount
            /\ e.syncSuccessCount # d.syncSuccessCount =>
                 \E i \in TaskIds :
                   SyncedWrite(i) /\ tasks[i].pid = d.bunjangPid
     /\ \A e \in docs' :
          (\A d \in docs : d.id # e.id) => e.syncSuccessCount = 0]_vars

\* A product whose error fields were set by a failed attempt has been
\* recorded SYNCED twice.
C22_Witness ==
  \E d \in docs :
    /\ d.syncStatus = "SYNCED" /\ d.syncSuccessCount = 2
    /\ d.syncErrorMessage = "null" /\ d.syncAttemptCount = 0
    /\ \E i \in DOMAIN tasks :
         /\ tasks[i].pid = d.bunjangPid /\ tasks[i].result = "success"
         /\ tasks[i].prevStatus = "ERROR"

\* C23: the tag lookup runs only when the stored record has no
\* destination identifier; a lookup that throws does not abort the record,
\* which continues as "not found" to a create; with a stored or looked-up
\* identifier the record goes to an update and never to a create. (The
\* price calculation between the lookup and the dispatch may still fail.)
C23_IdentifierResolution ==
  [][\A i \in TaskIds :
       (i \in DOMAIN tasks /\ i \in DOMAIN tasks'
        /\ tasks'[i].pc # tasks[i].pc) =>
         LET t == tasks[i]
             u == tasks'[i]
         IN /\ (t.pc = "reread" /\ u.pc = "tagLookup") =>
                 DocIn(docs, t.pid).shopifyGid = NoGid
            /\ (t.pc = "reread" /\ u.pc = "price") =>
                 /\ DocIn(docs, t.pid).shopifyGid # NoGid
                 /\ u.gid = DocIn(docs, t.pid).shopifyGid
                 /\ u.lookup = "none"
            /\ u.pc = "tagLookup" => t.pc = "reread"
            /\ t.pc = "tagLookup" =>
                 /\ u.pc = "price"
                 /\ u.lookup \in {"found", "notFound", "threw"}
                 /\ u.lookup = "threw" => u.gid = NoGid
                 /\ u.lookup = "found" =>
                      /\ u.gid # NoGid
                      /\ u.gid = FindProductByBunjangPidTag(t.pid)
                 /\ u.lookup = "notFound" =>
                      u.gid = NoGid /\ TaggedGids(t.pid) = {}
            /\ (t.pc = "price" /\ u.pc # "writeError") =>
                 /\ t.gid # NoGid => u.pc = "queryVariant"
                 /\ t.gid = NoGid => u.pc = "create"
            /\ t.pc = "queryVariant" => u.pc = "update"
            /\ u.pc = "create" => t.pc = "price" /\ t.gid = NoGid
            /\ u.pc = "update" => t.pc = "queryVariant" /\ t.gid # NoGid]_vars

\* A record whose lookup threw, although a tagged product exists, is at
\* the create.
C23_Witness ==
  \E i \in DOMAIN tasks :
    /\ tasks[i].pc = "create" /\ tasks[i].lookup = "threw"
    /\ TaggedGids(tasks[i].pid) # {}

\* C24: after a successful create or update, a media attachment that
\* throws or returns failed items is followed by the SYNCED write, and the
\* record whose SYNCED write is applied returns 'success' with the stored
\* status SYNCED: the media failure never sends the record to the ERROR
\* path.
C24_MediaFailureKeepsSynced ==
  [][\A i \in TaskIds :
       (i \in DOMAIN tasks /\ i \in DOMAIN tasks'
        /\ tasks'[i].pc # tasks[i].pc) =>
         LET t == tasks[i]
             u == tasks'[i]
         IN /\ t.pc = "media" =>
                 /\ t.createdId # NoGid
                 /\ u.pc = "writeSynced" /\ u.media # "none"
            /\ (t.pc = "writeSynced" /\ t.media = "failed"
                /\ u.pc = "fulfilled") =>
                 /\ u.result = "success"
                 /\ DocIn(docs', t.pid).syncStatus = "SYNCED"
                 /\ DocIn(docs', t.pid).shopifyGid = t.createdId]_vars

\* The media attachment of a created or updated product failed and the
\* record is at its SYNCED write.
C24_Witness ==
  \E i \in DOMAIN tasks :
    /\ tasks[i].pc = "writeSynced" /\ tasks[i].media = "failed"
    /\ tasks[i].createdId # NoGid /\ tasks[i].called

\* C25: a Sync State Store failure during a record's sync (the find, the
\* attempt upsert or the outcome write rejecting) is batch-fatal: the batch
\* never returns its summary after a record's promise rejected, and no
\* record is started after one.
C25_StoreFailureIsBatchFatal ==
  /\ bpc = "done" =>
       \A i \in DOMAIN tasks : tasks[i].result # "rejected"
  /\ \A i, j \in DOMAIN tasks :
       (tasks[i].result = "rejected" /\ GroupOf(i) < GroupOf(j))
         => tasks[j].pc = "new"

\* The error came out of downloadAndProcessFile.
DownloadFailed ==
  dl.pc = "thrown" /\ dl.error \in {"ExternalServiceError", "fsError"}

NoFileOfThisCall ==
  dl.temp = "absent" /\ dl.final \in {"absent", "stale"}

C30_InvalidCatalogTypeFailsFirst ==
  dl.catalogType \notin {"full", "segment"} =>
    /\ dl.pc \in {"start", "thrown"}
    /\ dl.pc = "thrown" =>
         dl.error = "INVALID_CATALOG_TYPE" /\ dl.cause = "none"
    /\ ~dl.requested
    /\ dl.temp = "absent" /\ dl.final \in {"absent", "stale"}
    /\ docs = {} /\ tasks = <<>> /\ bpc = "idle"

C30_Witness ==
  /\ dl.catalogType = "daily" /\ dl.pc = "thrown"
  /\ dl.error = "INVALID_CATALOG_TYPE" /\ ~dl.urlConfigured

\* sourceAmount * rate * (1 + markupPercent/100) + handlingFee in exact
\* arithmetic, rounded to hundredths with halves up. The amount, the markup
\* and the fee are whole numbers, the rate is rate.num / 10^rate.scale.
ExactHundredths(amount, rate, markupPercent, fee) ==
  LET den == 2 * TenTo(rate.scale)
      num == 2 * amount.num * rate.num * (100 + markupPercent)
  IN (num + TenTo(rate.scale)) \div den + 100 * fee.num

\* C27: calculateShopifyPriceUsd returns
\* sourceAmount * rate * (1 + markupPercent/100) + handlingFee rounded to 2
\* decimal places as a string with two decimals; price 10000, rate 0.00075,
\* markup 20 and fee 2 give "11.00".
C27_PriceFormula ==
  (pr.fn = "calculateShopifyPriceUsd" /\ pr.pc = "returned") =>
    /\ pr.result.kind = "price"
    /\ pr.result.price =
         FixedString(ExactHundredths(pr.bunjangPriceKrw, pr.rate,
                                     pr.markupPercentage, pr.handlingFeeUsd))
    /\ (/\ pr.bunjangPriceKrw = JsNumber(10000, 0)
        /\ pr.rate = JsNumber(75, 5)
        /\ pr.markupPercentage = 20 /\ pr.handlingFeeUsd = JsNumber(2, 0))
       => pr.result.price = "11.00"

C29_InternalCostNeverThrows ==
  pr.fn = "calculateInternalTotalCostUsd" =>
    /\ pr.pc # "thrown"
    /\ (/\ pr.pc = "returned"
        /\ \/ IsInvalidAmount(pr.bunjangPriceKrw)
           \/ IsInvalidAmount(pr.bunjangShippingFeeKrw)
           \/ pr.rate.type # "number" \/ pr.rate.nan \/ pr.rate.neg
           \/ pr.rate.num = 0)
       => pr.result = NullCost

\* C31: a record whose price calculation fails makes no destination call
\* in that step and goes to the ERROR write, from which no create or update
\* is reachable; the applied ERROR write records status ERROR with the
\* message and returns 'error'; the tally of its group counts it in errors,
\* and the batch never rejects.
C31_PriceFailureIsRecordError ==
  [][/\ \A i \in TaskIds :
          (i \in DOMAIN tasks /\ i \in DOMAIN tasks'
           /\ tasks'[i].pc # tasks[i].pc) =>
            LET t == tasks[i]
                u == tasks'[i]
            IN /\ (t.pc = "price" /\ u.pc \notin {"queryVariant", "create"}) =>
                    /\ u.pc = "writeError"
                    /\ products' = products /\ u.called = t.called
                    /\ u.createdId = NoGid
               /\ t.pc = "writeError" =>
                    /\ u.pc \in {"fulfilled", "rejected"}
                    /\ products' = products /\ u.called = t.called
                    /\ u.pc = "fulfilled" =>
                         /\ u.result = "error"
                         /\ DocIn(docs', t.pid).syncStatus = "ERROR"
                         /\ DocIn(docs', t.pid).syncErrorMessage = "msg"
     /\ (bpc = "await" /\ summary' # summary) =>
          summary'.errors >= summary.errors
                               + Count(ChunkOf(chunkStart), "error")
     /\ bpc' # "rejected"]_vars

\* A batch has returned in which a record with a stored identifier failed
\* at its price calculation, before any destination call, and a later
\* record was synced.
C31_Witness ==
  /\ bpc = "done"
  /\ \E i, j \in DOMAIN tasks :
       /\ i < j /\ tasks[i].result = "error" /\ ~tasks[i].called
       /\ StatusIn(docs, tasks[i].pid) = "ERROR"
       /\ tasks[j].result = "success"
       /\ summary.errors = 1

\* C32: a create or update that returns without a product ID sends the
\* record to the ERROR write and never to the media attachment (media is
\* attached only with a product ID); the applied ERROR write records
\* status ERROR, returns 'error', which the tally counts in errors, and
\* leaves a stored destination identifier non-empty.
C32_MissingIdIsRecordError ==
  [][/\ \A i \in TaskIds :
          (i \in DOMAIN tasks /\ i \in DOMAIN tasks'
           /\ tasks'[i].pc # tasks[i].pc) =>
            LET t == tasks[i]
                u == tasks'[i]
            IN /\ (t.pc \in {"create", "update", "updateVariant"}
                   /\ u.pc # "updateVariant" /\ u.createdId = NoGid) =>
                    u.pc = "writeError"
               /\ u.pc = "media" =>
                    /\ t.pc \in {"create", "update", "updateVariant"}
                    /\ u.createdId # NoGid
               /\ (t.pc = "writeError" /\ u.pc = "fulfilled") =>
                    /\ u.result = "error"
                    /\ DocIn(docs', t.pid).syncStatus = "ERROR"
                    /\ DocIn(docs, t.pid).shopifyGid # NoGid =>
                         DocIn(docs', t.pid).shopifyGid # NoGid
                    /\ t.gid # NoGid =>
                         DocIn(docs', t.pid).shopifyGid = t.gid
     /\ (bpc = "await" /\ chunkStart' # chunkStart) =>
          summary'.errors - summary.errors
            >= Count(ChunkOf(chunkStart), "error")]_vars

\* In a first batch, the only record of an external ID is at its ERROR
\* write without a product ID although its create made the product: the
\* create returned without an ID.
C32_Witness ==
  /\ runs = 1
  /\ \E i \in DOMAIN tasks :
       /\ Unique(i) /\ tasks[i].pc = "writeError" /\ tasks[i].called
       /\ tasks[i].createdId = NoGid /\ tasks[i].gid = NoGid
       /\ TaggedGids(tasks[i].pid) # {}

\* The row passes every test of processCatalogRow that does not involve
\* its dates.
PassesOtherFilters(row, filterCategoryIds) ==
  /\ ToUpperCase(Trim(row.saleStatus)) = "SELLING"
  /\ Trim(row.pid) # "" /\ Trim(row.name) # ""
  /\ ~row.price.nan /\ row.price.v >= 0
  /\ (row.quantity.nan \/ row.quantity.v >= 0)
  /\ ~(/\ filterCategoryIds # {} /\ Trim(row.categoryId) # ""
       /\ Trim(row.categoryId) \notin filterCategoryIds)

\* C33: a row that passes the other filters and has a valid updatedAt is
\* accepted by processCatalogRow whatever its createdAt, an unparsable
\* createdAt included; such a row is dropped only when its updatedAt is
\* missing or invalid.
C33_CreatedAtFailureNonFatal ==
  (rw.pc = "done" /\ PassesOtherFilters(rw.row, rw.filterCategoryIds)) =>
    /\ rw.row.updatedAt = "valid" => rw.result # NullRow
    /\ rw.result = NullRow => rw.row.updatedAt # "valid"

\* Ten times the least and the greatest delay before retry n: the floor
\* of 1000 ms and 70% / 130% of initialDelay * 2^n.
TenTimesLeastDelay(n) ==
  Max(10 * 1000, 7 * INITIAL_SHOPIFY_RETRY_DELAY_MS * 2^n)

TenTimesGreatestDelay(n) ==
  Max(10 * 1000, 13 * INITIAL_SHOPIFY_RETRY_DELAY_MS * 2^n)

\* C34: without a retry-after header the delay before retry n (0-based)
\* lies between max(1000, 0.7 * initialDelay * 2^n) and
\* max(1000, 1.3 * initialDelay * 2^n), and the lower bound doubles from one
\* retry to the next.
C34_BackoffWithinJitterBounds ==
  /\ (rq.pc = "sleep" /\ rq.err.retryAfter = NoHeader) =>
       /\ TenTimesLeastDelay(rq.attempt) <= 10 * rq.delayMs
       /\ 10 * rq.delayMs <= TenTimesGreatestDelay(rq.attempt)
  /\ \A n \in 0..(MAX_SHOPIFY_RETRIES - 2) :
       TenTimesLeastDelay(n + 1) = 2 * TenTimesLeastDelay(n)

\* The third retry is delayed by the least delay its jitter allows.
C34_Witness ==
  /\ rq.pc = "sleep" /\ rq.err.retryAfter = NoHeader
  /\ rq.attempt = MAX_SHOPIFY_RETRIES - 1
  /\ 10 * rq.delayMs = TenTimesLeastDelay(rq.attempt)
  /\ rq.delayMs = 5600

\* The calls made to the source API, as positions of the call log.
SourceCalls ==
  {k \in 1..Len(od.calls) :
     od.calls[k].api \in {"getBunjangProductDetails", "createBunjangOrderV2"}}

\* Call k is made for a linked line item, with the text after the prefix.
ForLinkedItem(k) ==
  LET c == od.calls[k]
  IN /\ c.item \in 1..Len(od.order.line_items)
     /\ od.order.line_items[c.item].linked
     /\ c.pid = od.order.line_items[c.item].rest

\* An order without linked item makes no call and returns success = false.
UnlinkedOrderMakesNoCall ==
  (/\ od.pc = "returned"
   /\ \A i \in 1..Len(od.order.line_items) :
        ~od.order.line_items[i].linked)
  => od.calls = <<>> /\ od.result.success = FALSE

C36_SyncedShape ==
  \A d \in docs :
    d.syncStatus = "SYNCED" =>
      /\ d.shopifyGid # NoGid
      /\ d.syncErrorMessage = "null" /\ d.syncErrorStackSample = "null"

\* No step removes a document or clears its destination identifier.
C36_IdentifierNeverCleared ==
  \A d \in docs :
    \E e \in docs' :
      /\ e.id = d.id /\ e.bunjangPid = d.bunjangPid
      /\ d.shopifyGid # NoGid => e.shopifyGid # NoGid

\* C36: in every reachable state, under any interleaving of attempts, a
\* document with status SYNCED has a non-null destination identifier and
\* null error fields, and a stored destination identifier is never cleared
\* by a later attempt, attempts that end in ERROR included.
C36_SyncedInvariantAndIdentifierKept ==
  []C36_SyncedShape /\ [][C36_IdentifierNeverCleared]_vars

\* A document synced before has been written ERROR by a later attempt and
\* still has its destination identifier.
C36_Witness ==
  \E d \in docs :
    /\ d.syncStatus = "ERROR" /\ d.syncSuccessCount >= 1
    /\ d.shopifyGid # NoGid /\ d.syncErrorMessage = "msg"
    /\ \E i \in DOMAIN tasks :
         tasks[i].pid = d.bunjangPid /\ tasks[i].result = "error"

\* The source order ID has been written to the destination order by an
\* accepted updateOrder call (tag and metafield order_id).
WrittenToDestination(id) ==
  \E k \in 1..Len(od.calls) :
    /\ od.calls[k].api = "updateOrder" /\ od.calls[k].status = 200
    /\ od.calls[k].tags = "BunjangOrderPlaced"
    /\ od.calls[k].metafields.order_id = id

\* C37: when processShopifyOrderForBunjang returns, every source order ID
\* it reports has been written to the destination order by an accepted
\* updateOrder call, and no item whose source order was placed has got the
\* error tag PID-<pid>-Exception.
C37_ReportedIdsWrittenBack ==
  od.pc = "returned" =>
    /\ \A n \in 1..Len(od.result.bunjangOrderIds) :
         WrittenToDestination(od.result.bunjangOrderIds[n])
    /\ \A i \in PlacedItems :
         \A k \in OrderCalls("updateOrder", i) :
           od.calls[k].tags # "Exception"

\* C38: records with the same external ID synced concurrently while no
\* destination product exists for it lead to at most one createProduct:
\* in a first batch whose upstream calls all succeed (so that no lookup
\* failure and no lost create answer is involved), the destination never
\* holds two products for one external ID.
C38_AtMostOneCreatePerExternalId ==
  (runs = 1 /\ ~failing) =>
    \A pid \in Pids : Cardinality(TaggedGids(pid)) <= 1

\* C39: whenever an attempt records SYNCED with shopifyListedPriceUsd = p
\* for an external ID that no other record of the batch carries, the
\* destination product it created or updated has the variant price p.
C39_ListedPriceIsDestinationPrice ==
  [][\A i \in TaskIds :
       (SyncedWrite(i) /\ Unique(i)) =>
         LET g == tasks[i].createdId
             after == DocIn(docs', tasks[i].pid)
         IN /\ after.syncStatus = "SYNCED" /\ after.shopifyGid = g
            /\ g \in 1..Len(products)
            /\ products[g].price = after.shopifyListedPriceUsd]_vars

\* The header is the base64 HMAC-SHA256 of the raw body under the
\* configured secret.
ValidSignature ==
  /\ wh.secret # "undefined" /\ wh.rawBody \notin {"undefined", "empty"}
  /\ wh.hmacHeader = HmacSha256Base64(wh.secret, wh.rawBody)

HeaderMissing == wh.hmacHeader.kind = "undefined"

\* C40: verifyShopifyWebhook calls next() exactly when the header is the
\* base64 HMAC-SHA256 of the raw body under the configured secret, and
\* otherwise throws without calling next(): UnauthorizedError HMAC_MISSING
\* without header, the 400 error RAW_BODY_MISSING with an empty or missing
\* raw body, and UnauthorizedError HMAC_INVALID, not a server error, when
\* the signature does not match.
C40_NextIffValidSignature ==
  wh.pc \in {"returned", "thrown"} =>
    /\ wh.nextCalls = 1 <=> ValidSignature
    /\ wh.nextCalls = 0 <=> wh.pc = "thrown"
    /\ HeaderMissing =>
         /\ wh.error.name = "UnauthorizedError"
         /\ wh.error.code = "HMAC_MISSING"
    /\ (wh.hmacHeader.length > 0
        /\ wh.rawBody \in {"undefined", "empty"}) =>
         wh.error.status = 400 /\ wh.error.code = "RAW_BODY_MISSING"
    /\ (/\ wh.hmacHeader.length > 0
        /\ wh.rawBody \notin {"undefined", "empty"}
        /\ wh.secret # "undefined" /\ ~ValidSignature) =>
         /\ wh.error.name = "UnauthorizedError"
         /\ wh.error.code = "HMAC_INVALID"

====
